---- MODULE Spec2Model ----
(***************************************************************************)
(* Builder lifecycle of useblacksmith/build-push-action.                   *)
(*                                                                         *)
(* One session = the main phase of src/src/main.ts (actionsToolkit.run,    *)
(* first callback) followed by the process-exit ("post") phase (second     *)
(* callback).  Every await that can fail is a nondeterministic outcome;    *)
(* the daemon process and the mount point are environment state.           *)
(***************************************************************************)
EXTENDS Integers, Sequences, FiniteSets, TLC

\* ---------------------------------------------------------------- bounds
\* number of process probes startBuildkitd makes before its 10 s deadline
MaxStartPolls == 2
\* number of worker-list queries made by the readiness loop before its 30 s deadline
MaxWorkerPolls == 2
\* largest requested platform list (inputs.platforms)
MaxPlatforms == 2
\* largest worker count a worker-list query reports
MaxWorkers == 2

\* largest maxRetries argument of retryWithBackoff that is explored (default: 5)
MaxRetries == 5
\* number of status polls getRemoteBuilderAddr makes before its 60 s deadline
MaxAcqPolls == 4
\* number of process probes shutdownBuildkitd makes before its 10 s deadline
MaxShutdownPolls == 3

\* ------------------------------------------------------ program constants
\* main.ts:31   initialBackoffMs: number = 200
initialBackoffMs == 200
\* main.ts:438 / main.ts:531   for (let attempt = 1; attempt <= 3; attempt++)
MaxUmountAttempts == 3
\* unnamed/part_000:41 and 69   const maxRetries = 3
ReportMaxRetries == 3
\* unnamed/part_000:200   `tcp://${ec2Instance['instance_ip']}:4242`
RemoteBuilderPort == 4242
\* setup_builder.ts:10
BUILDKIT_DAEMON_ADDR == "tcp://127.0.0.1:1234"
\* control-plane handles
NoExposeId == ""
ExposeIds == {"", "e1"}
BuildIds == {"null", "b1"}

Passes == {"main", "post"}
NoError == "none"

VARIABLES
  \* inputs (context.Inputs)
  setupOnly, nofallback,
  \* environment: live buildkitd processes, mount at /var/lib/buildkit
  buildkitd, daemonPending, mounted,
  \* control flow of the two phases
  pc,
  \* locals of startBlacksmithBuilder / setupStickyDisk / startAndConfigureBuildkitd
  sticky, setupError, startPolls, workerPolls, lastWorkers, nativeMulti, workersSeen, bindAddr,
  \* what maybeFormatBlockDevice just did; platforms.length while the daemon is set up
  fmt, platforms,
  \* locals of main
  builderInfo, buildError, attempt,
  \* state-helper (persisted from the main phase to the post phase)
  stExposeId, stSetupOnly, stTmpDir,
  \* outcome of the main phase
  failed, thrown, mainExit,
  \* observation of what the session did
  calls, releaseLog, probe, confirmedStopped, shutdownRes, mountCheck, steps, cleanupErr, passCalls,
  \* one call of retryWithBackoff: its arguments, loop state and outcome
  retry,
  \* one call of getRemoteBuilderAddr (the build-task acquisition of the earlier
  \* main.ts), and one call of a build-task report (complete, fail, abandon)
  acq, rep,
  \* one call of getArgs: the inputs it reads and the argument list it returns
  argsCall,
  \* one call of shutdownBuildkitd: what its commands will answer, its loop state and
  \* its outcome
  sd,
  \* one call of validateBuildkitState: what its commands observe and what it returns
  val

inputVars == <<setupOnly, nofallback>>
envVars == <<buildkitd, daemonPending, mounted>>
pollVars == <<startPolls, workerPolls, lastWorkers>>
cfgVars == <<nativeMulti, workersSeen, bindAddr>>
setupVars == <<sticky, setupError, pollVars, cfgVars>>
setupLocals == <<fmt, platforms>>
mainVars == <<builderInfo, buildError, attempt>>
stateVars == <<stExposeId, stSetupOnly, stTmpDir>>
exitVars == <<failed, thrown, mainExit>>
passVars == <<probe, confirmedStopped, shutdownRes, mountCheck, steps, cleanupErr, passCalls>>
obsVars == <<calls, releaseLog>>

sessionVars ==
  <<inputVars, envVars, pc, setupVars, setupLocals, mainVars, stateVars, exitVars, passVars, obsVars>>

helperVars == <<retry, acq, rep, argsCall, sd, val>>

vars == <<sessionVars, helperVars>>

CallNames == {"getStickyDisk", "reportBuild", "mount", "spawn", "joinTailnet",
              "createRemote", "useRemote", "inspectLocal", "createLocal", "localCreated",
              "localFound", "inspectInfo", "build", "export",
              "reportBuildCompleted", "reportBuildFailed", "commitStickyDisk"}

PassCallNames == {"prune", "shutdown", "umount", "sleep"}

Count(c) == calls[c]
Called(c) == [calls EXCEPT ![c] = @ + 1]

\* reporter.reportMetric and reporter.reportBuildPushActionFailure (reporter.ts, the
\* external failure-reporting collaborator): telemetry is best-effort and never raises
\* into its caller
TelemetryThrows == FALSE

\* ------------------------------------------------------------------ Init
\* main.ts:189-196   builderInfo, buildError, ref before the build phase
NoBuilder == [addr |-> "null", buildId |-> "null", exposeId |-> NoExposeId]
\* maybeFormatBlockDevice has not just run
NotFormatted ==
  [ran |-> FALSE, fs |-> "none", mkfs |-> FALSE, resize |-> FALSE, ok |-> FALSE, warned |-> FALSE]

\* ------------------------------------------------------- retryWithBackoff
\* what one invocation of the operation does: it resolves ("ok") or rejects with an
\* error whose status is 429, whose message contains "429", or with any other error
ErrorKinds == {"status429", "message429", "other"}
Outcomes == {"ok"} \cup ErrorKinds

\* variant: every error is taken for a rate limit
isRateLimitedAlways(kind) == TRUE

\* main.ts:38   error.message?.includes('429') || error.status === 429
isRateLimited(kind) == kind \in {"status429", "message429"}

\* variant: the last attempt also backs off
mayRetryOffByOne(att, maxRetries) == att < maxRetries

\* main.ts:39   if (attempt < maxRetries - 1)
mayRetry(att, maxRetries) == att < maxRetries - 1

\* main.ts:40   initialBackoffMs * Math.pow(2, attempt)
backoffMs(initial, att) == initial * (2 ^ att)

\* main.ts:32   let lastError = new Error('No error occurred')
NoErrorOccurred == [kind |-> "No error occurred", at |-> 0]

\* no call of retryWithBackoff in progress
RetryIdle ==
  [script |-> <<>>, maxRetries |-> 0, attempt |-> 0, invocations |-> 0, sleeps |-> <<>>,
   lastError |-> NoErrorOccurred, status |-> "idle", value |-> 0, error |-> NoErrorOccurred]

\* main.ts:31-33   entry of retryWithBackoff(operation, maxRetries): script[i] is what
\* the i-th invocation of operation does
RetryCalls ==
  { [RetryIdle EXCEPT !.script = sc, !.maxRetries = m, !.status = "loop"] :
      sc \in [1..MaxRetries -> Outcomes], m \in 0..MaxRetries }

\* main.ts:33-47   one iteration of the loop up to its return, throw or backoff
RetryInvoke ==
  /\ retry.status = "loop"
  /\ retry.attempt < retry.maxRetries
  /\ LET i == retry.invocations + 1
         o == retry.script[i]
         e == [kind |-> o, at |-> i]
     IN IF o = "ok"
          THEN retry' = [retry EXCEPT !.invocations = i, !.status = "returned", !.value = i]
          ELSE IF isRateLimited(o) /\ mayRetry(retry.attempt, retry.maxRetries)
                 THEN retry' = [retry EXCEPT !.invocations = i, !.lastError = e,
                                             !.status = "sleeping"]
                 ELSE retry' = [retry EXCEPT !.invocations = i, !.lastError = e,
                                             !.status = "threw", !.error = e]
  /\ UNCHANGED <<sessionVars, acq, rep, argsCall, sd, val>>

\* main.ts:40-43   the backoff sleep, then continue with the next attempt
RetrySleep ==
  /\ retry.status = "sleeping"
  /\ retry' = [retry EXCEPT !.sleeps = Append(@, backoffMs(initialBackoffMs, retry.attempt)),
                            !.attempt = @ + 1, !.status = "loop"]
  /\ UNCHANGED <<sessionVars, acq, rep, argsCall, sd, val>>

\* main.ts:49   throw lastError once the loop condition fails
RetryExhausted ==
  /\ retry.status = "loop"
  /\ retry.attempt >= retry.maxRetries
  /\ retry' = [retry EXCEPT !.status = "threw", !.error = retry.lastError]
  /\ UNCHANGED <<sessionVars, acq, rep, argsCall, sd, val>>

\* ------------------------------------- build-task acquisition and reports
\* what one HTTP request to the control plane does: a 2xx response ("ok"), an error
\* response with a status below 500 or of 500 and above, or no response at all: a
\* connection reset (ECONNRESET) or another network failure (timeout, DNS, ...)
HttpOutcomes == {"ok", "below500", "server5xx", "connReset", "otherNetwork"}

TaskIds == {"t1", "t2"}
NoTask == "none"
InstanceIps == {"ip1", "ip2"}
NoInstance == [ip |-> "none", at |-> 0]
\* the null that getRemoteBuilderAddr returns when it has no address
NoAddr == [scheme |-> "none", host |-> "none", port |-> 0]

\* variant: the address names a fixed host, whatever instance the response carried
remoteAddrFixedHost(ip) == [scheme |-> "tcp", host |-> "ip1", port |-> RemoteBuilderPort]

\* unnamed/part_000:200   the address built from the instance of a status response
remoteAddr(ip) == [scheme |-> "tcp", host |-> ip, port |-> RemoteBuilderPort]

\* no report in progress
RepIdle == [kind |-> "none", taskId |-> NoTask, retries |-> 0, log |-> <<>>, status |-> "idle"]

\* entry of reportBuildCompleted / reportBuildAbandoned / reportBuildFailed
\* (unnamed/part_000:39-41, 67-69, 95-96) for a build task
RepCall(kind, taskId) == [RepIdle EXCEPT !.kind = kind, !.taskId = taskId, !.status = "loop"]

\* unnamed/part_000:52 and 80   if (error.response && error.response.status < 500)
isClientError(o) == o = "below500"

\* unnamed/part_000:51-62, 79-90, 102-105   after a failed request: complete and abandon
\* go round their loop again unless the error is a client error or this was the last
\* of maxRetries attempts; fail has no loop and rethrows at once
reportRetries(kind, o, retries) ==
  /\ kind \in {"complete", "abandon"}
  /\ ~isClientError(o)
  /\ retries # ReportMaxRetries - 1

\* unnamed/part_000:42-64, 70-92, 96-105   one request of the report in progress
RepRequest ==
  /\ rep.status = "loop"
  /\ \E o \in HttpOutcomes :
       LET log == Append(rep.log, o) IN
         rep' = IF o = "ok"
                  THEN [rep EXCEPT !.log = log, !.status = "returned"]
                  ELSE IF reportRetries(rep.kind, o, rep.retries)
                         THEN [rep EXCEPT !.log = log, !.retries = @ + 1]
                         ELSE [rep EXCEPT !.log = log, !.status = "threw"]
  /\ UNCHANGED <<sessionVars, retry, acq, argsCall, sd, val>>

\* no acquisition in progress
AcqIdle ==
  [pc |-> "idle", taskId |-> NoTask, polls |-> 0, nullPolls |-> 0, instance |-> NoInstance,
   timedOut |-> FALSE, abandoned |-> <<>>, status |-> "pending", result |-> NoAddr,
   warned |-> FALSE]

\* unnamed/part_000:146-158   entry of getRemoteBuilderAddr
AcqStart == [AcqIdle EXCEPT !.pc = "submit"]

\* unnamed/part_000:207-215   the catch-all of getRemoteBuilderAddr: a 404 warns only
\* when a fallback will follow, any other error always warns; null is returned
AcqCaught(a, is404) ==
  [a EXCEPT !.pc = "done", !.status = "returned", !.result = NoAddr,
            !.warned = (IF is404 THEN ~nofallback ELSE TRUE)]

\* unnamed/part_000:162-167   submit the build task (postWithRetry) and keep its id
AcqSubmit ==
  /\ acq.pc = "submit"
  /\ \/ \E t \in TaskIds : acq' = [acq EXCEPT !.pc = "poll", !.taskId = t]
     \/ \E is404 \in BOOLEAN : acq' = AcqCaught(acq, is404)
  /\ UNCHANGED <<sessionVars, retry, rep, argsCall, sd, val>>

\* what a status poll (getWithRetry, unnamed/part_000:171-173) answers: no
\* ec2_instance yet, an ec2_instance (writeOk: whether its TLS material could be written
\* to disk, unnamed/part_000:179-198), or a failed request
PollAnswers ==
  {[kind |-> "none", ip |-> "none", writeOk |-> TRUE],
   [kind |-> "error", ip |-> "none", writeOk |-> TRUE]}
    \cup {[kind |-> "instance", ip |-> i, writeOk |-> w] : i \in InstanceIps, w \in BOOLEAN}

\* unnamed/part_000:173-174   const ec2Instance = data['ec2_instance'] ?? null; if (ec2Instance)
pollSawInstance(d) == d.kind = "instance"

\* unnamed/part_000:170-203   one iteration of the polling loop, entered while the
\* deadline has not passed
AcqPoll ==
  /\ acq.pc = "poll"
  /\ acq.polls < MaxAcqPolls
  /\ \E d \in PollAnswers :
       LET a == [acq EXCEPT !.polls = @ + 1] IN
         IF d.kind = "error"
           THEN \E is404 \in BOOLEAN : acq' = AcqCaught(a, is404)
           ELSE IF pollSawInstance(d)
             THEN LET seen == [a EXCEPT !.instance = [ip |-> d.ip, at |-> a.polls]] IN
                    IF d.writeOk
                      THEN acq' = [seen EXCEPT !.pc = "done", !.status = "returned",
                                               !.result = remoteAddr(d.ip)]
                      ELSE acq' = AcqCaught(seen, FALSE)
             ELSE acq' = [a EXCEPT !.nullPolls = @ + 1]
  /\ UNCHANGED <<sessionVars, retry, rep, argsCall, sd, val>>

\* unnamed/part_000:170 and 205   the deadline has passed when the loop condition is
\* evaluated (it holds the first time, so one poll at least was made):
\* reportBuildAbandoned(taskId) is called
AcqTimeout ==
  /\ acq.pc = "poll"
  /\ acq.polls >= 1
  /\ acq' = [acq EXCEPT !.pc = "abandon", !.timedOut = TRUE,
                        !.abandoned = Append(@, acq.taskId)]
  /\ rep' = RepCall("abandon", acq.taskId)
  /\ UNCHANGED <<sessionVars, retry, argsCall, sd, val>>

\* variant: an error of the abandon report leaves getRemoteBuilderAddr as an exception
afterAbandonPropagates(a, repStatus) ==
  IF repStatus = "threw"
    THEN [a EXCEPT !.pc = "done", !.status = "threw"]
    ELSE [a EXCEPT !.pc = "done", !.status = "returned", !.result = NoAddr]

\* unnamed/part_000:205-215   reportBuildAbandoned returned (return null) or threw (the
\* catch-all warns and returns null)
afterAbandon(a, repStatus) ==
  IF repStatus = "threw"
    THEN AcqCaught(a, FALSE)
    ELSE [a EXCEPT !.pc = "done", !.status = "returned", !.result = NoAddr]

\* unnamed/part_000:205-215   the end of the abandon report ends the acquisition
AcqAbandonEnd ==
  /\ acq.pc = "abandon"
  /\ rep.status \in {"returned", "threw"}
  /\ acq' = afterAbandon(acq, rep.status)
  /\ UNCHANGED <<sessionVars, retry, rep, argsCall, sd, val>>

\* unnamed/part_000:452-459 and 497-503   a build on the remote builder ended; the post
\* phase reports it completed or failed according to the recorded build status
RepPost ==
  /\ acq.pc = "done"
  /\ acq.result # NoAddr
  /\ rep.status = "idle"
  /\ \E kind \in {"complete", "fail"} : rep' = RepCall(kind, acq.taskId)
  /\ UNCHANGED <<sessionVars, retry, acq, argsCall, sd, val>>

\* ------------------------------------------------------------- getArgs
\* An argument or an input string is the sequence of its comma-separated fields:
\* 'type=registry,dest=output.txt' is <<"type=registry", "dest=output.txt">>.
\* inputs.outputs entries that are explored
OutputValues ==
  { <<"type=registry">>, <<"type=registry", "dest=output.txt">>, <<"type=docker">> }
\* largest inputs.outputs list
MaxOutputs == 2
OutputLists == UNION { [1..n -> OutputValues] : n \in 0..MaxOutputs }
\* minor version of the installed buildx (0.5.x, 0.9.x, 0.10.x)
BuildxMinors == {5, 9, 10}

\* toolkit.buildx.versionSatisfies('>=0.<minor>.0')
versionSatisfies(installed, minor) == installed >= minor

\* context.ts:216-218   Util.asyncForEach(inputs.outputs, output => args.push('--output', output))
OutputArgs(outputs) ==
  [i \in 1..(2 * Len(outputs)) |->
     IF i % 2 = 1 THEN <<"--output">> ELSE outputs[i \div 2]]

\* context.ts:162-258   getBuildArgs for inputs whose list inputs other than outputs and
\* tags are empty and whose string inputs are empty (no exporter to a local directory
\* or tar, no platforms, no attestation): build, --iidfile, the outputs, the tag
getBuildArgs(inputs) ==
  <<(<<"build">>), (<<"--iidfile">>), (<<"/tmp/iidfile">>)>>
    \o OutputArgs(inputs.outputs)
    \o <<(<<"--tag">>), (<<"user/app:latest">>)>>

\* context.ts:260-282   getCommonArgs with load, network, no-cache and pull unset
getCommonArgs(inputs) ==
  (IF versionSatisfies(inputs.buildx, 6)
     THEN <<(<<"--metadata-file">>), (<<"/tmp/metadata">>)>> ELSE <<>>)
    \o (IF inputs.push THEN <<(<<"--push">>)>> ELSE <<>>)

\* context.ts:149-161   getArgs: build arguments, common arguments, the context; the
\* estargz property of the inputs is not read
getArgs(inputs) == getBuildArgs(inputs) \o getCommonArgs(inputs) \o <<(<<".">>)>>

\* no call of getArgs
ArgsIdle ==
  [status |-> "idle", estargz |-> FALSE, push |-> FALSE, buildx |-> 10, outputs |-> <<>>,
   args |-> <<>>]

\* the calls of getArgs that are explored
ArgsCalls ==
  { [status |-> "call", estargz |-> e, push |-> p, buildx |-> v, outputs |-> o, args |-> <<>>] :
      e \in BOOLEAN, p \in BOOLEAN, v \in BuildxMinors, o \in OutputLists }

\* context.ts:149-161   a call of getArgs returns its argument list
GetArgs ==
  /\ argsCall.status = "call"
  /\ argsCall' = [argsCall EXCEPT !.status = "returned", !.args = getArgs(argsCall)]
  /\ UNCHANGED <<sessionVars, retry, acq, rep, sd, val>>

\* ------------------------------------------------------ shutdownBuildkitd
\* `sudo pkill -TERM buildkitd`: the signal was delivered ("ok"), no process matched
\* (exit 1, "noprocess"), or the command failed otherwise
PkillAnswers == {"ok", "noprocess", "error"}
\* `pgrep buildkitd` inside shutdownBuildkitd: a pid ("found"), exit 1 ("absent"),
\* any other failure ("error")
ProbeAnswers == {"found", "absent", "error"}

TimedOutShutdown == "Timed out waiting for buildkitd to shutdown after 10 seconds"

\* no call of shutdownBuildkitd
SdIdle ==
  [pc |-> "idle", pkill |-> "ok", script |-> [i \in 1..MaxShutdownPolls |-> "found"],
   signals |-> 0, probes |-> 0, deadline |-> FALSE, status |-> "pending", error |-> NoError]

\* main.ts:615-618   entry of shutdownBuildkitd; script[i] is what the i-th probe answers
SdCalls ==
  { [SdIdle EXCEPT !.pc = "signal", !.pkill = k, !.script = sc] :
      k \in PkillAnswers, sc \in [1..MaxShutdownPolls -> ProbeAnswers] }

\* main.ts:621 and 641-644   the termination signal; a failed pkill is logged and rethrown
SdSignal ==
  /\ sd.pc = "signal"
  /\ sd' = IF sd.pkill = "ok"
             THEN [sd EXCEPT !.signals = @ + 1, !.pc = "loop"]
             ELSE [sd EXCEPT !.signals = @ + 1, !.pc = "done", !.status = "threw",
                             !.error = sd.pkill]
  /\ UNCHANGED <<sessionVars, retry, acq, rep, argsCall, val>>

\* variant: any failure of the probe is taken for a stopped daemon
probeShowsStoppedOnAnyFailure(answer) == answer \in {"absent", "error"}

\* main.ts:629-633   if (error.code === 1): no process found, shutdown successful
probeShowsStopped(answer) == answer = "absent"

\* main.ts:624-637   one probe of the wait loop, made while the deadline has not passed
SdProbe ==
  /\ sd.pc = "loop"
  /\ sd.probes < MaxShutdownPolls
  /\ LET answer == sd.script[sd.probes + 1] IN
       sd' = IF answer = "found"
               THEN [sd EXCEPT !.probes = @ + 1]
               ELSE IF probeShowsStopped(answer)
                 THEN [sd EXCEPT !.probes = @ + 1, !.pc = "done", !.status = "returned"]
                 ELSE [sd EXCEPT !.probes = @ + 1, !.pc = "done", !.status = "threw",
                                 !.error = "pgrep failed"]
  /\ UNCHANGED <<sessionVars, retry, acq, rep, argsCall, val>>

\* main.ts:624 and 640   the deadline has passed when the loop condition is evaluated
SdDeadline ==
  /\ sd.pc = "loop"
  /\ sd' = [sd EXCEPT !.pc = "done", !.deadline = TRUE, !.status = "threw",
                      !.error = TimedOutShutdown]
  /\ UNCHANGED <<sessionVars, retry, acq, rep, argsCall, val>>

\* ------------------------------------------------- validateBuildkitState
\* buildkit_validation.ts:39   the database files whose size is checked, in order
dbFiles == <<"history.db", "cache.db", "snapshots.db", "metadata_v2.db", "containerdmeta.db">>

DbNames == {dbFiles[i] : i \in DOMAIN dbFiles}

\* what the size query of one file meets: no such file, a file of 0 bytes, a file with
\* content, or a command that could not be run at all (execAsync rejects)
DbStates == {"missing", "empty", "data", "execerr"}

\* buildkit_validation.ts:42-43   parseInt of the stdout of
\* `sudo stat -c%s <file> 2>/dev/null || echo "0"`: the size of an existing file (1
\* stands for any positive size), and the echoed "0" when stat fails on a missing file
statSize(st) == IF st = "data" THEN 1 ELSE 0

\* buildkit_validation.ts:41-52   one file's check returns false on size 0; a rejected
\* command is caught and only logged
dbCheckFails(st) == st # "execerr" /\ statSize(st) = 0

\* buildkit_validation.ts:13-60   validateBuildkitState for what its three checks
\* observe: the answer of `pgrep buildkitd`, whether lock/-wal/-shm files were listed,
\* the state of each database file; no step of main.ts calls it
validateBuildkitState(pgrep, lockFiles, dbs) ==
  /\ pgrep = "absent"
  /\ ~lockFiles
  /\ \A i \in DOMAIN dbFiles : ~dbCheckFails(dbs[dbFiles[i]])

ValIdle ==
  [pc |-> "idle", pgrep |-> "absent", lockFiles |-> FALSE,
   dbs |-> [f \in DbNames |-> "data"], result |-> FALSE]

\* entry of validateBuildkitState in every environment it can meet
ValCalls ==
  { [ValIdle EXCEPT !.pc = "call", !.pgrep = g, !.lockFiles = l, !.dbs = d] :
      g \in {"found", "absent", "error"}, l \in BOOLEAN, d \in [DbNames -> DbStates] }

\* buildkit_validation.ts:13-60   one call, to its return value
Validate ==
  /\ val.pc = "call"
  /\ val' = [val EXCEPT !.pc = "done",
                        !.result = validateBuildkitState(val.pgrep, val.lockFiles, val.dbs)]
  /\ UNCHANGED <<sessionVars, retry, acq, rep, argsCall, sd>>

\* no helper call in progress
HelpersIdle ==
  /\ retry = RetryIdle /\ acq = AcqIdle /\ rep = RepIdle /\ argsCall = ArgsIdle /\ sd = SdIdle
  /\ val = ValIdle

\* the start of a session on a runner where daemons buildkitd processes are alive
SessionStart(daemons) ==
  /\ setupOnly \in BOOLEAN
  /\ nofallback \in BOOLEAN
  /\ buildkitd = daemons
  /\ daemonPending = FALSE
  /\ mounted = FALSE
  /\ pc = "setupBuildx"
  /\ sticky = [exposeId |-> NoExposeId, buildId |-> "null", acquired |-> FALSE]
  /\ setupError = NoError
  /\ startPolls = 0
  /\ workerPolls = 0
  /\ nativeMulti = FALSE
  /\ lastWorkers = 0
  /\ workersSeen = FALSE
  /\ bindAddr = "null"
  /\ fmt = NotFormatted
  /\ platforms = 0
  /\ builderInfo = NoBuilder
  /\ buildError = NoError
  /\ attempt = 0
  /\ stExposeId = NoExposeId
  /\ stSetupOnly = FALSE
  /\ stTmpDir = FALSE
  /\ failed = FALSE
  /\ thrown = NoError
  /\ mainExit = "running"
  /\ calls = [c \in CallNames |-> 0]
  /\ releaseLog = <<>>
  /\ probe = [p \in Passes |-> "notrun"]
  /\ confirmedStopped = [p \in Passes |-> FALSE]
  /\ shutdownRes = [p \in Passes |-> "notrun"]
  /\ mountCheck = [p \in Passes |-> "notrun"]
  /\ steps = [p \in Passes |-> <<>>]
  /\ cleanupErr = [p \in Passes |-> NoError]
  /\ passCalls = [p \in Passes |-> [c \in PassCallNames |-> 0]]

\* a session on a fresh runner
Init == SessionStart(0) /\ HelpersIdle

\* a session on a runner where an earlier step of the job left a buildkitd process
\* alive (a setup-only use of the action, whose post pass runs at the end of the job,
\* or a pass whose shutdown timed out), with the fallback allowed
InitLeftover == SessionStart(1) /\ ~nofallback /\ HelpersIdle

\* ------------------------------------------------------------ main: setup
\* main.ts:180-187   core.setFailed + return leaves only the group callback
SetupBuildx ==
  /\ pc = "setupBuildx"
  /\ \E available \in BOOLEAN :
       failed' = (failed \/ ~available)
  /\ pc' = "sb_dockerfile"
  /\ UNCHANGED <<inputVars, envVars, setupVars, mainVars, stateVars, thrown, mainExit, passVars, obsVars>>
  /\ UNCHANGED helperVars
  /\ UNCHANGED setupLocals

\* a throw inside the try of startBlacksmithBuilder (main.ts:100-121)
SetupThrows(e) ==
  /\ setupError' = e
  /\ pc' = "sb_catch"

\* main.ts:105-108
SbDockerfile ==
  /\ pc = "sb_dockerfile"
  /\ \E resolved \in BOOLEAN :
       IF ~setupOnly /\ ~resolved
         THEN SetupThrows("Failed to resolve dockerfile path")
         ELSE pc' = "sb_getStickyDisk" /\ UNCHANGED setupError
  /\ UNCHANGED <<inputVars, envVars, sticky, pollVars, cfgVars,
                 mainVars, stateVars, exitVars, passVars, obsVars>>
  /\ UNCHANGED helperVars
  /\ UNCHANGED setupLocals

\* setup_builder.ts:167-203, called at setup_builder.ts:340-342
\* the response's exposeId may be absent: expose_id: response.exposeId || ''
SbGetStickyDisk ==
  /\ pc = "sb_getStickyDisk"
  /\ calls' = Called("getStickyDisk")
  /\ \/ /\ SetupThrows("getStickyDisk failed")
        /\ UNCHANGED sticky
     \/ \E e \in ExposeIds :
          /\ sticky' = [sticky EXCEPT !.exposeId = e, !.acquired = TRUE]
          /\ pc' = "sb_format"
          /\ UNCHANGED setupError
  /\ UNCHANGED <<inputVars, envVars, pollVars, cfgVars,
                 mainVars, stateVars, exitVars, passVars, releaseLog>>
  /\ UNCHANGED helperVars
  /\ UNCHANGED setupLocals

FsTypes == {"ext4", "xfs", "none"}

\* variant: a failed resize2fs fails the function
maybeFormatBlockDeviceResizeFatal(fs, resizeOk, mkfsOk) ==
  IF fs = "ext4"
    THEN [mkfs |-> FALSE, resize |-> TRUE, ok |-> resizeOk, warned |-> ~resizeOk]
    ELSE [mkfs |-> TRUE, resize |-> FALSE, ok |-> mkfsOk, warned |-> FALSE]

\* setup_builder.ts:24-54   result of maybeFormatBlockDevice for a device whose
\* blkid answer is fs ("none": blkid exits non-zero), given how resize2fs and mkfs end
maybeFormatBlockDevice(fs, resizeOk, mkfsOk) ==
  IF fs = "ext4"
    THEN [mkfs |-> FALSE, resize |-> TRUE, ok |-> TRUE, warned |-> ~resizeOk]
    ELSE [mkfs |-> TRUE, resize |-> FALSE, ok |-> mkfsOk, warned |-> FALSE]

\* setup_builder.ts:348
SbFormat ==
  /\ pc = "sb_format"
  /\ \E fs \in FsTypes, resizeOk \in BOOLEAN, mkfsOk \in BOOLEAN :
       LET r == maybeFormatBlockDevice(fs, resizeOk, mkfsOk) IN
         /\ fmt' = [ran |-> TRUE, fs |-> fs, mkfs |-> r.mkfs, resize |-> r.resize,
                    ok |-> r.ok, warned |-> r.warned]
         /\ IF r.ok
              THEN pc' = "sb_reportBuild" /\ UNCHANGED setupError
              ELSE SetupThrows("mkfs failed")
  /\ UNCHANGED <<inputVars, envVars, sticky, pollVars, cfgVars,
                 mainVars, stateVars, exitVars, passVars, obsVars>>
  /\ UNCHANGED helperVars
  /\ UNCHANGED platforms

\* variant: the build is registered in setup-only sessions too
registersBuildAlways(so) == TRUE

\* setup_builder.ts:350-352   `if (!setupOnly)`: only a session that will build registers
\* a build with the control plane
registersBuild(so) == ~so

\* reporter.reportBuild, called at setup_builder.ts:350-355; buildResponse may be null
SbReportBuild ==
  /\ pc = "sb_reportBuild"
  /\ IF ~registersBuild(setupOnly)
       THEN /\ pc' = "sb_mount"
            /\ UNCHANGED <<sticky, setupError, calls>>
       ELSE /\ calls' = Called("reportBuild")
            /\ \/ /\ SetupThrows("reportBuild failed")
                  /\ UNCHANGED sticky
               \/ \E b \in BuildIds :
                    /\ sticky' = [sticky EXCEPT !.buildId = b]
                    /\ pc' = "sb_mount"
                    /\ UNCHANGED setupError
  /\ UNCHANGED <<inputVars, envVars, pollVars, cfgVars,
                 mainVars, stateVars, exitVars, passVars, releaseLog>>
  /\ UNCHANGED helperVars
  /\ fmt' = NotFormatted
  /\ UNCHANGED platforms

\* variant: a failed mount is only logged and setup goes on to start the daemon
SbMountIgnoresFailure ==
  /\ pc = "sb_mount"
  /\ calls' = Called("mount")
  /\ \E ok \in BOOLEAN : mounted' = (mounted \/ ok)
  /\ pc' = "sb_spawn"
  /\ UNCHANGED <<inputVars, buildkitd, daemonPending, sticky, setupError, pollVars, cfgVars,
                 mainVars, stateVars, exitVars, passVars, releaseLog>>
  /\ UNCHANGED helperVars
  /\ UNCHANGED setupLocals

\* setup_builder.ts:356-373   mkdir -p, mount; the inode check never throws
SbMount ==
  /\ pc = "sb_mount"
  /\ calls' = Called("mount")
  /\ \E ok \in BOOLEAN :
       IF ok
         THEN /\ mounted' = TRUE
              /\ pc' = "sb_spawn"
              /\ UNCHANGED setupError
         ELSE /\ SetupThrows("mount failed")
              /\ UNCHANGED mounted
  /\ UNCHANGED <<inputVars, buildkitd, daemonPending, sticky, pollVars, cfgVars,
                 mainVars, stateVars, exitVars, passVars, releaseLog>>
  /\ UNCHANGED helperVars
  /\ UNCHANGED setupLocals

\* variant: the native multi-platform path is taken for more than one platform
nativeMultiPlatformBuildsEnabledForSeveral(n) == n > 1

\* setup_builder.ts:254   false && (platforms?.length ?? 0 > 1), n = platforms.length
nativeMultiPlatformBuildsEnabled(n) == FALSE /\ (n # 0)

\* setup_builder.ts:280 and 295
requiredWorkers(native) == IF native THEN 2 ELSE 1

\* setup_builder.ts:253-266   the address the daemon is bound to
resolveBindAddress(native) ==
  IF native THEN "tcp://tailscale:1234" ELSE BUILDKIT_DAEMON_ADDR

\* setup_builder.ts:251-268 and 109-140   bind address for the requested platforms
\* (joining the tailnet for a native multi-platform build), config file, spawn
SbSpawn ==
  /\ pc = "sb_spawn"
  /\ \E n \in 0..MaxPlatforms, tomlOk \in BOOLEAN :
       LET native == nativeMultiPlatformBuildsEnabled(n) IN
         /\ platforms' = n
         /\ nativeMulti' = native
         /\ bindAddr' = resolveBindAddress(native)
         /\ IF tomlOk
              THEN /\ calls' = [calls EXCEPT !["spawn"] = @ + 1,
                                            !["joinTailnet"] = @ + (IF native THEN 1 ELSE 0)]
                   /\ daemonPending' = TRUE
                   /\ pc' = "sb_waitPid"
                   /\ UNCHANGED setupError
              ELSE /\ calls' = [calls EXCEPT !["joinTailnet"] = @ + (IF native THEN 1 ELSE 0)]
                   /\ SetupThrows("buildkitd.toml write failed")
                   /\ UNCHANGED daemonPending
  /\ UNCHANGED <<inputVars, buildkitd, mounted, sticky, pollVars, workersSeen,
                 mainVars, stateVars, exitVars, passVars, releaseLog>>
  /\ UNCHANGED helperVars
  /\ UNCHANGED fmt

\* variant: the wait loop returns on its first probe whatever the probe found
pidAppearedAlways(n) == TRUE

\* setup_builder.ts:146-150   if (stdout.trim()): pgrep printed the pid of a buildkitd
\* process, n being the number of such processes
pidAppeared(n) == n > 0

\* setup_builder.ts:142-160   one pgrep probe of the wait loop; the spawned process
\* may or may not have come up by then
SbWaitPid ==
  /\ pc = "sb_waitPid"
  /\ IF startPolls < MaxStartPolls
       THEN \E up \in BOOLEAN :
              LET n == IF daemonPending /\ up THEN buildkitd + 1 ELSE buildkitd IN
                /\ buildkitd' = n
                /\ daemonPending' = (daemonPending /\ ~up)
                /\ IF pidAppeared(n)
                     THEN pc' = "sb_workers" /\ UNCHANGED <<startPolls, setupError>>
                     ELSE pc' = pc /\ startPolls' = startPolls + 1 /\ UNCHANGED setupError
       ELSE /\ SetupThrows("Timed out waiting for buildkitd to start after 10 seconds")
            /\ UNCHANGED <<buildkitd, daemonPending, startPolls>>
  /\ UNCHANGED <<inputVars, mounted, sticky, workerPolls, lastWorkers, cfgVars,
                 mainVars, stateVars, exitVars, passVars, obsVars>>
  /\ UNCHANGED helperVars
  /\ UNCHANGED setupLocals

\* outcomes of `buildctl debug workers`: QueryError (the command failed) or the
\* number of workers listed
QueryError == 0 - 1
WorkerAnswers == {QueryError} \cup (0..MaxWorkers)

\* variant: the comparison admits a listing of the header line alone
workersReadyOffByOne(w, native) == w # QueryError /\ w + 1 >= requiredWorkers(native)

\* setup_builder.ts:278-281   lines.length > requiredWorkers, lines = header + workers
workersReady(w, native) == w # QueryError /\ w + 1 > requiredWorkers(native)

\* setup_builder.ts:275-289   one iteration of the readiness loop
SbWorkers ==
  /\ pc = "sb_workers"
  /\ IF workerPolls < MaxWorkerPolls
       THEN \E w \in WorkerAnswers :
              /\ lastWorkers' = (IF w = QueryError THEN lastWorkers ELSE w)
              /\ IF workersReady(w, nativeMulti)
                   THEN pc' = "sb_workersFinal" /\ UNCHANGED workerPolls
                   ELSE pc' = pc /\ workerPolls' = workerPolls + 1
       ELSE /\ pc' = "sb_workersFinal"
            /\ UNCHANGED <<lastWorkers, workerPolls>>
  /\ UNCHANGED <<inputVars, envVars, sticky, setupError, startPolls, cfgVars,
                 mainVars, stateVars, exitVars, passVars, obsVars>>
  /\ UNCHANGED helperVars
  /\ UNCHANGED setupLocals

\* setup_builder.ts:291-304   the final check is a fresh query
SbWorkersFinal ==
  /\ pc = "sb_workersFinal"
  /\ \E w \in WorkerAnswers :
       /\ lastWorkers' = (IF w = QueryError THEN lastWorkers ELSE w)
       /\ IF workersReady(w, nativeMulti)
            THEN /\ workersSeen' = (w # QueryError /\ w >= requiredWorkers(nativeMulti))
                 /\ pc' = "sb_return"
                 /\ UNCHANGED setupError
            ELSE /\ SetupThrows(IF w = QueryError THEN "buildctl failed" ELSE "buildkit workers not ready")
                 /\ UNCHANGED workersSeen
  /\ UNCHANGED <<inputVars, envVars, sticky, startPolls, workerPolls, nativeMulti, bindAddr,
                 mainVars, stateVars, exitVars, passVars, obsVars>>
  /\ UNCHANGED helperVars
  /\ UNCHANGED setupLocals

\* main.ts:119-120   setExposeId, return {addr, buildId, exposeId}; finally leaveTailnet
SbReturn ==
  /\ pc = "sb_return"
  /\ stExposeId' = sticky.exposeId
  /\ builderInfo' = [addr |-> bindAddr, buildId |-> sticky.buildId, exposeId |-> sticky.exposeId]
  /\ startPolls' = 0 /\ workerPolls' = 0 /\ lastWorkers' = 0
  /\ pc' = "builder"
  /\ UNCHANGED <<inputVars, envVars, sticky, setupError, cfgVars, buildError, attempt, stSetupOnly,
                 stTmpDir, exitVars, passVars, obsVars>>
  /\ UNCHANGED helperVars
  /\ platforms' = 0
  /\ UNCHANGED fmt

\* variant: the catch falls back whatever nofallback says
shouldRethrowAlwaysFallsBack(nf) == FALSE

\* main.ts:130   if (inputs.nofallback)
shouldRethrow(nf) == nf

\* main.ts:121-139 and 389-391   catch of startBlacksmithBuilder: report, then rethrow (caught by the
\* build-phase catch, which records buildError) or fall back with empty builder info
SbCatch ==
  /\ pc = "sb_catch"
  /\ ~TelemetryThrows
  /\ IF shouldRethrow(nofallback)
       THEN /\ buildError' = setupError
            /\ pc' = "mc_export"
            /\ UNCHANGED builderInfo
       ELSE /\ builderInfo' = NoBuilder
            /\ pc' = "builder"
            /\ UNCHANGED buildError
  /\ startPolls' = 0 /\ workerPolls' = 0
  /\ UNCHANGED <<inputVars, envVars, sticky, setupError, lastWorkers, cfgVars, attempt, stateVars,
                 exitVars, passVars, obsVars>>
  /\ UNCHANGED helperVars
  /\ fmt' = NotFormatted
  /\ platforms' = 0

\* ------------------------------------------------- main: builder and build
\* a throw inside the build-phase try (main.ts:197-391): recorded, cleanup follows
BuildPhaseThrows(e) ==
  /\ buildError' = e
  /\ pc' = "mc_export"

\* main.ts:202-226   register the remote builder (and make it the default when setup-only)
RemoteBuilder ==
  /\ pc = "builder"
  /\ builderInfo.addr # "null"
  /\ \E createOk \in BOOLEAN, useOk \in BOOLEAN :
       /\ calls' = [calls EXCEPT !["createRemote"] = @ + 1,
                                 !["useRemote"] = @ + (IF createOk /\ setupOnly THEN 1 ELSE 0)]
       /\ IF createOk /\ (setupOnly => useOk)
            THEN pc' = "builderInfo" /\ UNCHANGED buildError
            ELSE BuildPhaseThrows("buildx create failed")
  /\ UNCHANGED <<inputVars, envVars, setupVars, builderInfo, attempt, stateVars, exitVars,
                 passVars, releaseLog>>
  /\ UNCHANGED helperVars
  /\ UNCHANGED setupLocals

InspectAnswers == {"found", "none", "throw"}

\* variant: a local builder is created whenever the inspection did not throw
createsLocalBuilderEvenIfFound(ins) == ins # "throw"

\* main.ts:236-242   the local builder is created when the inspection found none
createsLocalBuilder(ins) == ins = "none"

\* main.ts:227-248   fallback: use the configured builder or create a local one;
\* both catch blocks only call core.setFailed
LocalBuilder ==
  /\ pc = "builder"
  /\ builderInfo.addr = "null"
  /\ \E ins \in InspectAnswers, createOk \in BOOLEAN :
       /\ calls' = [calls EXCEPT !["inspectLocal"] = @ + 1,
                      !["localFound"] = @ + (IF ins = "found" THEN 1 ELSE 0),
                      !["createLocal"] = @ + (IF createsLocalBuilder(ins) THEN 1 ELSE 0),
                      !["localCreated"] = @ + (IF createsLocalBuilder(ins) /\ createOk THEN 1 ELSE 0)]
       /\ failed' = (failed \/ ins = "throw" \/ (createsLocalBuilder(ins) /\ ~createOk))
  /\ pc' = "builderInfo"
  /\ UNCHANGED <<inputVars, envVars, setupVars, mainVars, stateVars, thrown, mainExit,
                 passVars, releaseLog>>
  /\ UNCHANGED helperVars
  /\ UNCHANGED setupLocals

\* main.ts:250-263   sentinel file, toolkit.builder.inspect()
BuilderInfo ==
  /\ pc = "builderInfo"
  /\ calls' = Called("inspectInfo")
  /\ \E ok \in BOOLEAN :
       IF ok
         THEN pc' = "setupOnlyCheck" /\ UNCHANGED buildError
         ELSE BuildPhaseThrows("builder inspect failed")
  /\ UNCHANGED <<inputVars, envVars, setupVars, builderInfo, attempt, stateVars, exitVars,
                 passVars, releaseLog>>
  /\ UNCHANGED helperVars
  /\ UNCHANGED setupLocals

\* variant: the daemon is a plain child of the main process and ends with it
daemonAfterExitDiesWithParent(n) == 0

\* setup_builder.ts:121-127   in a setup-only session buildkitd is launched with nohup, in
\* the background, detached and with cleanup: false, so the n daemons outlive process.exit
daemonAfterExit(n) == n

\* main.ts:265-271   setSetupOnly(true); process.exit(0) ends the main phase at once
SetupOnlyExit ==
  /\ pc = "setupOnlyCheck"
  /\ IF setupOnly
       THEN /\ stSetupOnly' = TRUE
            /\ mainExit' = "exit0"
            /\ buildkitd' = daemonAfterExit(buildkitd)
            /\ pc' = "pc_tailnet"
       ELSE /\ pc' = "build"
            /\ UNCHANGED <<stSetupOnly, mainExit, buildkitd>>
  /\ UNCHANGED <<inputVars, daemonPending, mounted, setupVars, mainVars, stExposeId, stTmpDir,
                 failed, thrown, passVars, obsVars>>
  /\ UNCHANGED helperVars
  /\ UNCHANGED setupLocals

\* main.ts:273-323   setTmpDir, getArgs, the buildx build command
Build ==
  /\ pc = "build"
  /\ stTmpDir' = TRUE
  /\ calls' = Called("build")
  /\ \E ok \in BOOLEAN :
       IF ok
         THEN pc' = "postBuild" /\ UNCHANGED buildError
         ELSE BuildPhaseThrows("buildx failed")
  /\ UNCHANGED <<inputVars, envVars, setupVars, builderInfo, attempt, stExposeId, stSetupOnly,
                 exitVars, passVars, releaseLog>>
  /\ UNCHANGED helperVars
  /\ UNCHANGED setupLocals

\* main.ts:325-388   image id, digest, metadata, build reference, summary support
PostBuild ==
  /\ pc = "postBuild"
  /\ \E ok \in BOOLEAN :
       IF ok
         THEN pc' = "mc_export" /\ UNCHANGED buildError
         ELSE BuildPhaseThrows("build reference failed")
  /\ UNCHANGED <<inputVars, envVars, setupVars, builderInfo, attempt, stateVars, exitVars,
                 passVars, obsVars>>
  /\ UNCHANGED helperVars
  /\ UNCHANGED setupLocals

\* ------------------------------------------------- shared cleanup helpers
Step(p, s) == [steps EXCEPT ![p] = Append(@, s)]
PassCalled(p, c) == [passCalls EXCEPT ![p][c] = @ + 1]
Warn(p, e) == [cleanupErr EXCEPT ![p] = e]

\* `pgrep buildkitd`: "found" (exit 0, pids on stdout), "absent" (exit 1),
\* "error" (any other exit code)
PgrepAnswers == IF buildkitd > 0 THEN {"found", "error"} ELSE {"absent", "error"}

\* variant: the probe's answer is ignored and the shutdown branch never taken
daemonDetectedNever(r) == FALSE

\* main.ts:405 and 505   if (stdout.trim()): the probe reported a running daemon
daemonDetected(r) == r = "found"

\* variant: shutdownBuildkitd may return normally without waiting for the process to exit
ShutdownOutcomesNoWait ==
  { [res |-> "stopped", dies |-> TRUE], [res |-> "stopped", dies |-> FALSE],
    [res |-> "timeout", dies |-> FALSE],
    [res |-> "error", dies |-> TRUE], [res |-> "error", dies |-> FALSE] }

\* main.ts:615-645   shutdownBuildkitd: pkill -TERM first, then probes until the process
\* is gone ("stopped", normal return), the 10 s deadline passes ("timeout", throws) or
\* pkill/pgrep itself fails ("error", throws); dies: whether the daemon exited.
\* With no process to signal, pkill exits 1 and that error is logged and rethrown
\* ("noprocess")
ShutdownOutcomes ==
  IF buildkitd > 0
    THEN { [res |-> "stopped", dies |-> TRUE], [res |-> "timeout", dies |-> FALSE],
           [res |-> "error", dies |-> TRUE], [res |-> "error", dies |-> FALSE] }
    ELSE { [res |-> "noprocess", dies |-> FALSE] }

\* main.ts:423-429 and 518-523   the catch around the probe and the shutdown warns
\* unless the caught error carries exit code 1
shutdownWarns(res) == res \in {"timeout", "error"}

\* ------------------------------------------------------ main: cleanup pass
\* main.ts:470-472   outer catch of the cleanup group: warn, skip to finally
MainCleanupThrows(e) ==
  /\ ~TelemetryThrows
  /\ cleanupErr' = Warn("main", e)
  /\ pc' = "mc_finally"

\* main.ts:395-401   build record export, only after a successful build phase
McExport ==
  /\ pc = "mc_export"
  /\ IF buildError = NoError
       THEN /\ calls' = Called("export")
            /\ steps' = Step("main", "export")
            /\ \E ok \in BOOLEAN :
                 IF ok
                   THEN pc' = "mc_probe" /\ UNCHANGED cleanupErr
                   ELSE MainCleanupThrows("export failed")
       ELSE /\ pc' = "mc_probe"
            /\ UNCHANGED <<calls, steps, cleanupErr>>
  /\ UNCHANGED <<inputVars, envVars, setupVars, mainVars, stateVars, exitVars, releaseLog,
                 probe, confirmedStopped, shutdownRes, mountCheck, passCalls>>
  /\ UNCHANGED helperVars
  /\ UNCHANGED setupLocals

\* main.ts:403-405 and 420-430   probe for a running daemon
McProbe ==
  /\ pc = "mc_probe"
  /\ \E r \in PgrepAnswers :
       /\ probe' = [probe EXCEPT !["main"] = r]
       /\ confirmedStopped' = [confirmedStopped EXCEPT !["main"] = (r = "absent")]
       /\ cleanupErr' = (IF r = "error" THEN Warn("main", "pgrep failed") ELSE cleanupErr)
       /\ pc' = (IF daemonDetected(r) THEN "mc_prune" ELSE "mc_tailnet")
  /\ UNCHANGED <<inputVars, envVars, setupVars, mainVars, stateVars, exitVars, obsVars,
                 shutdownRes, mountCheck, steps, passCalls>>
  /\ UNCHANGED helperVars
  /\ UNCHANGED setupLocals

\* variant: a failed prune leaves the daemon step without shutting the daemon down
shutdownAfterPruneOnlyIfOk(ok) == ok

\* main.ts:406-416 and 506-515   the prune has its own try/catch, which only warns, so
\* shutdownBuildkitd is called whether the prune worked (ok) or not
shutdownAfterPrune(ok) == TRUE

\* main.ts:406-413   pruneBuildkitCache; its failure is only a warning. The daemon is a
\* separate process and may exit on its own between the probe and the shutdown call
McPrune ==
  /\ pc = "mc_prune"
  /\ steps' = Step("main", "prune")
  /\ passCalls' = PassCalled("main", "prune")
  /\ \E ok \in BOOLEAN :
       /\ cleanupErr' = (IF ok THEN cleanupErr ELSE Warn("main", "prune failed"))
       /\ pc' = (IF shutdownAfterPrune(ok) THEN "mc_shutdown" ELSE "mc_tailnet")
  /\ \E exits \in BOOLEAN :
       buildkitd' = (IF exits THEN 0 ELSE buildkitd)
  /\ UNCHANGED <<inputVars, daemonPending, mounted, setupVars, mainVars, stateVars, exitVars, obsVars,
                 probe, confirmedStopped, shutdownRes, mountCheck>>
  /\ UNCHANGED helperVars
  /\ UNCHANGED setupLocals

\* main.ts:415-419 and 423-430   shutdownBuildkitd; a throw is caught by the probe's catch
McShutdown ==
  /\ pc = "mc_shutdown"
  /\ steps' = Step("main", "shutdown")
  /\ passCalls' = PassCalled("main", "shutdown")
  /\ \E o \in ShutdownOutcomes :
       /\ buildkitd' = (IF o.dies THEN 0 ELSE buildkitd)
       /\ shutdownRes' = [shutdownRes EXCEPT !["main"] = o.res]
       /\ confirmedStopped' = [confirmedStopped EXCEPT !["main"] = (o.res = "stopped")]
       /\ cleanupErr' = (IF shutdownWarns(o.res) THEN Warn("main", "shutdown failed") ELSE cleanupErr)
       /\ pc' = "mc_tailnet"
  /\ UNCHANGED <<inputVars, daemonPending, mounted, setupVars, mainVars, stateVars, exitVars,
                 obsVars, probe, mountCheck>>
  /\ UNCHANGED helperVars
  /\ UNCHANGED setupLocals

\* main.ts:432   leaveTailnet never throws (setup_builder.ts:221-244)
McTailnet ==
  /\ pc = "mc_tailnet"
  /\ steps' = Step("main", "tailnet")
  /\ pc' = "mc_sync"
  /\ UNCHANGED <<inputVars, envVars, setupVars, mainVars, stateVars, exitVars, obsVars,
                 probe, confirmedStopped, shutdownRes, mountCheck, cleanupErr, passCalls>>
  /\ UNCHANGED helperVars
  /\ UNCHANGED setupLocals

\* `sync` then `mount | grep /var/lib/buildkit`: "mounted", "none" (grep exit 1),
\* "error" (sync or the pipeline failed otherwise)
MountAnswers == IF mounted THEN {"mounted", "error"} ELSE {"none", "error"}

\* variant: the catch warns whatever the exit code, also when grep merely found no match
unmountWarnsOnNoMatch(m) == m \in {"none", "error"}

\* main.ts:453-461 and 546-552   the catch of the unmount step: exit code 1 (grep found
\* no match) is a debug line, any other failure a warning
unmountWarns(m) == m = "error"

\* main.ts:433-437 and 453-461
McSync ==
  /\ pc = "mc_sync"
  /\ steps' = Step("main", "sync")
  /\ \E m \in MountAnswers :
       /\ mountCheck' = [mountCheck EXCEPT !["main"] = m]
       /\ cleanupErr' = (IF unmountWarns(m) THEN Warn("main", "sync failed") ELSE cleanupErr)
       /\ IF m = "mounted"
            THEN pc' = "mc_umount" /\ attempt' = 1
            ELSE pc' = "mc_report" /\ UNCHANGED attempt
  /\ UNCHANGED <<inputVars, envVars, setupVars, builderInfo, buildError, stateVars, exitVars,
                 obsVars, probe, confirmedStopped, shutdownRes, passCalls>>
  /\ UNCHANGED helperVars
  /\ UNCHANGED setupLocals

\* exit status of a failed `sudo umount`: 1 (sudo refused, or umount reported a wrong
\* invocation or missing permission), 32 (the unmount itself failed, e.g. target busy)
UmountExitCodes == {1, 32}

\* main.ts:444-445, 453-461 and 537-538, 546-552   the error of the third attempt is
\* rethrown into the catch of the unmount step, which takes exit status 1 for "grep
\* found no match" and only writes a debug line
umountErrorWarns(code) == code # 1

\* main.ts:438-452   one attempt of the umount loop
McUmount ==
  /\ pc = "mc_umount"
  /\ \E ok \in BOOLEAN :
       IF ok
         THEN /\ mounted' = FALSE
              /\ passCalls' = PassCalled("main", "umount")
              /\ pc' = "mc_report"
              /\ attempt' = 0
              /\ UNCHANGED cleanupErr
         ELSE /\ UNCHANGED mounted
              /\ IF attempt = MaxUmountAttempts
                   THEN /\ passCalls' = PassCalled("main", "umount")
                        /\ \E code \in UmountExitCodes :
                             cleanupErr' = (IF umountErrorWarns(code)
                                              THEN Warn("main", "umount failed")
                                              ELSE cleanupErr)
                        /\ pc' = "mc_report"
                        /\ attempt' = 0
                   ELSE /\ passCalls' = [passCalls EXCEPT !["main"]["umount"] = @ + 1,
                                                          !["main"]["sleep"] = @ + 1]
                        /\ attempt' = attempt + 1
                        /\ pc' = pc
                        /\ UNCHANGED cleanupErr
  /\ steps' = (IF attempt = 1 THEN Step("main", "umount") ELSE steps)
  /\ UNCHANGED <<inputVars, buildkitd, daemonPending, setupVars, builderInfo, buildError,
                 stateVars, exitVars, obsVars, probe, confirmedStopped, shutdownRes, mountCheck>>
  /\ UNCHANGED helperVars
  /\ UNCHANGED setupLocals

\* variant: the main pass reports completion whether or not the build phase failed
mainReportAlwaysCompleted(addr, be) == IF addr = "null" THEN "none" ELSE "reportBuildCompleted"

\* main.ts:463-469   which control-plane report the main pass issues
mainReport(addr, be) ==
  IF addr = "null" THEN "none"
  ELSE IF be = NoError THEN "reportBuildCompleted" ELSE "reportBuildFailed"

Release(call, p, e, b) == Append(releaseLog, [call |-> call, pass |-> p, exposeId |-> e, buildId |-> b])

\* main.ts:463-472   report completion or failure, keyed by builderInfo.exposeId
McReport ==
  /\ pc = "mc_report"
  /\ LET r == mainReport(builderInfo.addr, buildError) IN
       IF r = "none"
         THEN /\ pc' = "mc_finally"
              /\ UNCHANGED <<calls, releaseLog, steps, cleanupErr>>
         ELSE /\ calls' = Called(r)
              /\ releaseLog' = Release(r, "main", builderInfo.exposeId, builderInfo.buildId)
              /\ steps' = Step("main", "report")
              /\ \E ok \in BOOLEAN :
                   IF ok
                     THEN pc' = "mc_finally" /\ UNCHANGED cleanupErr
                     ELSE MainCleanupThrows("report failed")
  /\ UNCHANGED <<inputVars, envVars, setupVars, mainVars, stateVars, exitVars,
                 probe, confirmedStopped, shutdownRes, mountCheck, passCalls>>
  /\ UNCHANGED helperVars
  /\ UNCHANGED setupLocals

\* variant: an error raised during cleanup replaces the build-phase error
rethrownCleanupFirst(be, ce) == IF ce # NoError THEN ce ELSE be

\* main.ts:492-495   the error the main phase ends with (be: buildError, ce: last cleanup error)
rethrown(be, ce) == be

\* main.ts:473-495   finally block (log dump), then rethrow of buildError
McFinally ==
  /\ pc = "mc_finally"
  /\ LET t == rethrown(buildError, cleanupErr["main"]) IN
       /\ thrown' = t
       /\ mainExit' = (IF t = NoError THEN "returned" ELSE "threw")
       /\ failed' = (failed \/ t # NoError)
  /\ pc' = "pc_tailnet"
  /\ UNCHANGED <<inputVars, envVars, setupVars, mainVars, stateVars, passVars, obsVars>>
  /\ UNCHANGED helperVars
  /\ UNCHANGED setupLocals

\* ------------------------------------------------------ post: cleanup pass
\* main.ts:571-574   outer catch of the final cleanup: warn and end
PostCleanupThrows(e) ==
  /\ ~TelemetryThrows
  /\ cleanupErr' = Warn("post", e)
  /\ pc' = "done"

\* main.ts:501
PcTailnet ==
  /\ pc = "pc_tailnet"
  /\ steps' = Step("post", "tailnet")
  /\ pc' = "pc_probe"
  /\ UNCHANGED <<inputVars, envVars, setupVars, mainVars, stateVars, exitVars, obsVars,
                 probe, confirmedStopped, shutdownRes, mountCheck, cleanupErr, passCalls>>
  /\ UNCHANGED helperVars
  /\ UNCHANGED setupLocals

\* main.ts:503-505 and 518-524
PcProbe ==
  /\ pc = "pc_probe"
  /\ \E r \in PgrepAnswers :
       /\ probe' = [probe EXCEPT !["post"] = r]
       /\ confirmedStopped' = [confirmedStopped EXCEPT !["post"] = (r = "absent")]
       /\ cleanupErr' = (IF r = "error" THEN Warn("post", "pgrep failed") ELSE cleanupErr)
       /\ pc' = (IF daemonDetected(r) THEN "pc_prune" ELSE "pc_sync")
  /\ UNCHANGED <<inputVars, envVars, setupVars, mainVars, stateVars, exitVars, obsVars,
                 shutdownRes, mountCheck, steps, passCalls>>
  /\ UNCHANGED helperVars
  /\ UNCHANGED setupLocals

\* main.ts:506-513
PcPrune ==
  /\ pc = "pc_prune"
  /\ steps' = Step("post", "prune")
  /\ passCalls' = PassCalled("post", "prune")
  /\ \E ok \in BOOLEAN :
       /\ cleanupErr' = (IF ok THEN cleanupErr ELSE Warn("post", "prune failed"))
       /\ pc' = (IF shutdownAfterPrune(ok) THEN "pc_shutdown" ELSE "pc_sync")
  /\ \E exits \in BOOLEAN :
       buildkitd' = (IF exits THEN 0 ELSE buildkitd)
  /\ UNCHANGED <<inputVars, daemonPending, mounted, setupVars, mainVars, stateVars, exitVars, obsVars,
                 probe, confirmedStopped, shutdownRes, mountCheck>>
  /\ UNCHANGED helperVars
  /\ UNCHANGED setupLocals

\* main.ts:515-524
PcShutdown ==
  /\ pc = "pc_shutdown"
  /\ steps' = Step("post", "shutdown")
  /\ passCalls' = PassCalled("post", "shutdown")
  /\ \E o \in ShutdownOutcomes :
       /\ buildkitd' = (IF o.dies THEN 0 ELSE buildkitd)
       /\ shutdownRes' = [shutdownRes EXCEPT !["post"] = o.res]
       /\ confirmedStopped' = [confirmedStopped EXCEPT !["post"] = (o.res = "stopped")]
       /\ cleanupErr' = (IF shutdownWarns(o.res) THEN Warn("post", "shutdown failed") ELSE cleanupErr)
  /\ pc' = "pc_sync"
  /\ UNCHANGED <<inputVars, daemonPending, mounted, setupVars, mainVars, stateVars, exitVars,
                 obsVars, probe, mountCheck>>
  /\ UNCHANGED helperVars
  /\ UNCHANGED setupLocals

\* main.ts:526-530 and 546-552
PcSync ==
  /\ pc = "pc_sync"
  /\ steps' = Step("post", "sync")
  /\ \E m \in MountAnswers :
       /\ mountCheck' = [mountCheck EXCEPT !["post"] = m]
       /\ cleanupErr' = (IF unmountWarns(m) THEN Warn("post", "sync failed") ELSE cleanupErr)
       /\ IF m = "mounted"
            THEN pc' = "pc_umount" /\ attempt' = 1
            ELSE pc' = "pc_tmpdir" /\ UNCHANGED attempt
  /\ UNCHANGED <<inputVars, envVars, setupVars, builderInfo, buildError, stateVars, exitVars,
                 obsVars, probe, confirmedStopped, shutdownRes, passCalls>>
  /\ UNCHANGED helperVars
  /\ UNCHANGED setupLocals

\* main.ts:531-545   one attempt of the umount loop
PcUmount ==
  /\ pc = "pc_umount"
  /\ \E ok \in BOOLEAN :
       IF ok
         THEN /\ mounted' = FALSE
              /\ passCalls' = PassCalled("post", "umount")
              /\ pc' = "pc_tmpdir"
              /\ attempt' = 0
              /\ UNCHANGED cleanupErr
         ELSE /\ UNCHANGED mounted
              /\ IF attempt = MaxUmountAttempts
                   THEN /\ passCalls' = PassCalled("post", "umount")
                        /\ \E code \in UmountExitCodes :
                             cleanupErr' = (IF umountErrorWarns(code)
                                              THEN Warn("post", "umount failed")
                                              ELSE cleanupErr)
                        /\ pc' = "pc_tmpdir"
                        /\ attempt' = 0
                   ELSE /\ passCalls' = [passCalls EXCEPT !["post"]["umount"] = @ + 1,
                                                          !["post"]["sleep"] = @ + 1]
                        /\ attempt' = attempt + 1
                        /\ pc' = pc
                        /\ UNCHANGED cleanupErr
  /\ steps' = (IF attempt = 1 THEN Step("post", "umount") ELSE steps)
  /\ UNCHANGED <<inputVars, buildkitd, daemonPending, setupVars, builderInfo, buildError,
                 stateVars, exitVars, obsVars, probe, confirmedStopped, shutdownRes, mountCheck>>
  /\ UNCHANGED helperVars
  /\ UNCHANGED setupLocals

\* main.ts:554-558   fs.rmSync of the temp directory recorded by the main phase
PcTmpDir ==
  /\ pc = "pc_tmpdir"
  /\ IF stTmpDir
       THEN \E ok \in BOOLEAN :
              IF ok
                THEN pc' = "pc_commit" /\ UNCHANGED cleanupErr
                ELSE PostCleanupThrows("rmSync failed")
       ELSE pc' = "pc_commit" /\ UNCHANGED cleanupErr
  /\ UNCHANGED <<inputVars, envVars, setupVars, mainVars, stateVars, exitVars, obsVars,
                 probe, confirmedStopped, shutdownRes, mountCheck, steps, passCalls>>
  /\ UNCHANGED helperVars
  /\ UNCHANGED setupLocals

\* variant: the commit is not guarded by the recorded exposeId
postCommitsWithoutExposeId(so, e) == so

\* main.ts:563-565   getSetupOnly() and getExposeId() !== ''
postCommits(so, e) == so /\ e # NoExposeId

\* main.ts:560-574   commit the sticky disk of a setup-only session
PcCommit ==
  /\ pc = "pc_commit"
  /\ IF postCommits(stSetupOnly, stExposeId)
       THEN /\ calls' = Called("commitStickyDisk")
            /\ releaseLog' = Release("commitStickyDisk", "post", stExposeId, "null")
            /\ steps' = Step("post", "commit")
            /\ \E ok \in BOOLEAN :
                 IF ok
                   THEN pc' = "done" /\ UNCHANGED cleanupErr
                   ELSE PostCleanupThrows("commit failed")
       ELSE /\ pc' = "done"
            /\ UNCHANGED <<calls, releaseLog, steps, cleanupErr>>
  /\ UNCHANGED <<inputVars, envVars, setupVars, mainVars, stateVars, exitVars,
                 probe, confirmedStopped, shutdownRes, mountCheck, passCalls>>
  /\ UNCHANGED helperVars
  /\ UNCHANGED setupLocals

\* --------------------------------------------------------- specification
Next ==
  \/ SetupBuildx
  \/ SbDockerfile
  \/ SbGetStickyDisk
  \/ SbFormat
  \/ SbReportBuild
  \/ SbMount
  \/ SbSpawn
  \/ SbWaitPid
  \/ SbWorkers
  \/ SbWorkersFinal
  \/ SbReturn
  \/ SbCatch
  \/ RemoteBuilder
  \/ LocalBuilder
  \/ BuilderInfo
  \/ SetupOnlyExit
  \/ Build
  \/ PostBuild
  \/ McExport
  \/ McProbe
  \/ McPrune
  \/ McShutdown
  \/ McTailnet
  \/ McSync
  \/ McUmount
  \/ McReport
  \/ McFinally
  \/ PcTailnet
  \/ PcProbe
  \/ PcPrune
  \/ PcShutdown
  \/ PcSync
  \/ PcUmount
  \/ PcTmpDir
  \/ PcCommit

Spec == Init /\ [][Next]_vars

LeftoverSpec == InitLeftover /\ [][Next]_vars

\* calls of retryWithBackoff (main.ts:31-50) for every script of outcomes and every
\* maxRetries within the bound
RetryInit ==
  /\ SessionStart(0) /\ ~setupOnly /\ ~nofallback
  /\ retry \in RetryCalls /\ acq = AcqIdle /\ rep = RepIdle /\ argsCall = ArgsIdle /\ sd = SdIdle
  /\ val = ValIdle

RetryNext ==
  \/ RetryInvoke
  \/ RetrySleep
  \/ RetryExhausted

RetrySpec == RetryInit /\ [][RetryNext]_vars

\* calls of getRemoteBuilderAddr (unnamed/part_000:146-219) and the build-task reports
\* that follow them (unnamed/part_000:39-106)
BuildTaskInit ==
  /\ SessionStart(0) /\ ~setupOnly
  /\ retry = RetryIdle /\ acq = AcqStart /\ rep = RepIdle /\ argsCall = ArgsIdle /\ sd = SdIdle
  /\ val = ValIdle

BuildTaskNext ==
  \/ AcqSubmit
  \/ AcqPoll
  \/ AcqTimeout
  \/ AcqAbandonEnd
  \/ RepPost
  \/ RepRequest

BuildTaskSpec == BuildTaskInit /\ [][BuildTaskNext]_vars

\* calls of getArgs (context.ts:149-161) for every explored combination of the estargz
\* and push inputs, the buildx version and the outputs input
ArgsInit ==
  /\ SessionStart(0) /\ ~setupOnly /\ ~nofallback
  /\ retry = RetryIdle /\ acq = AcqIdle /\ rep = RepIdle /\ argsCall \in ArgsCalls /\ sd = SdIdle
  /\ val = ValIdle

ArgsNext == GetArgs

ArgsSpec == ArgsInit /\ [][ArgsNext]_vars

\* calls of shutdownBuildkitd (main.ts:615-645) for every answer of pkill and every
\* script of probe answers within the bound
ShutdownInit ==
  /\ SessionStart(0) /\ ~setupOnly /\ ~nofallback
  /\ retry = RetryIdle /\ acq = AcqIdle /\ rep = RepIdle /\ argsCall = ArgsIdle
  /\ sd \in SdCalls /\ val = ValIdle

ShutdownNext ==
  \/ SdSignal
  \/ SdProbe
  \/ SdDeadline

ShutdownSpec == ShutdownInit /\ [][ShutdownNext]_vars

\* one call of validateBuildkitState in every environment
ValidateInit ==
  /\ SessionStart(0) /\ ~setupOnly /\ ~nofallback
  /\ retry = RetryIdle /\ acq = AcqIdle /\ rep = RepIdle /\ argsCall = ArgsIdle /\ sd = SdIdle
  /\ val \in ValCalls

ValidateNext == Validate

ValidateSpec == ValidateInit /\ [][ValidateNext]_vars

\* the runner keeps running the phase that is in progress and always runs the post
\* phase of an action whose main phase ran (action.yml:132-135)
FairSpec == Spec /\ WF_vars(Next)

TypeOK ==
  /\ setupOnly \in BOOLEAN /\ nofallback \in BOOLEAN /\ nativeMulti \in BOOLEAN
  /\ buildkitd \in 0..2 /\ daemonPending \in BOOLEAN /\ mounted \in BOOLEAN
  /\ attempt \in 0..MaxUmountAttempts
  /\ startPolls \in 0..MaxStartPolls /\ workerPolls \in 0..MaxWorkerPolls
  /\ stExposeId \in ExposeIds /\ stSetupOnly \in BOOLEAN /\ stTmpDir \in BOOLEAN
  /\ Len(releaseLog) <= 2
  /\ retry.status \in {"idle", "loop", "sleeping", "returned", "threw"}
  /\ retry.attempt \in 0..MaxRetries /\ retry.invocations \in 0..MaxRetries
  /\ platforms \in 0..MaxPlatforms /\ fmt.fs \in FsTypes
  /\ acq.polls \in 0..MaxAcqPolls /\ acq.status \in {"pending", "returned", "threw"}
  /\ rep.retries \in 0..(ReportMaxRetries - 1) /\ Len(rep.log) <= ReportMaxRetries

\* ------------------------------------------------------------- properties
Releases(e) == {i \in DOMAIN releaseLog : releaseLog[i].exposeId = e}
LeaseAcquired == sticky.acquired /\ sticky.exposeId # NoExposeId
DaemonStarted == calls["spawn"] > 0 /\ ~daemonPending
SetupFailed == setupError # NoError /\ pc # "sb_catch"
MainEnded == mainExit \in {"returned", "threw"}
InMainSteps(x) == \E i \in DOMAIN steps["main"] : steps["main"][i] = x
Shutdowns == passCalls["main"]["shutdown"] + passCalls["post"]["shutdown"]

\* C1: in both cleanup passes umount is issued only after the daemon has been confirmed
\* stopped in that pass (a probe found no buildkitd process); after a shutdown that
\* timed out or failed the pass does not go on to unmount
C1_UmountOnlyAfterConfirmedStop ==
  [][\A p \in Passes :
       passCalls'[p]["umount"] > passCalls[p]["umount"] => confirmedStopped[p]]_vars

\* C2: every lease acquired from the control plane (non-empty exposeId) has been released
\* exactly once, keyed by that exposeId, when the session is over
C2_LeaseReleasedExactlyOnce ==
  (pc = "done" /\ LeaseAcquired) => Cardinality(Releases(sticky.exposeId)) = 1

\* C3: a session whose lease has an empty exposeId never calls reportBuildCompleted,
\* reportBuildFailed or commitStickyDisk
C3_EmptyLeaseNeverReleased ==
  sticky.exposeId = NoExposeId => releaseLog = <<>>

\* C4: in the main cleanup pass a failing step is only logged and every later step is
\* still attempted: once the pass is over, the daemon probe, the tailnet leave, the
\* sync/mount check and (with a remote builder) the control-plane report have all run
C4_MainPassAttemptsEveryStep ==
  MainEnded =>
    /\ probe["main"] # "notrun"
    /\ InMainSteps("tailnet")
    /\ mountCheck["main"] # "notrun"
    /\ (builderInfo.addr # "null" => InMainSteps("report"))

C6_TeardownAlwaysRuns ==
  <>( /\ pc = "done"
      /\ probe["post"] # "notrun"
      /\ (probe["post"] = "found" => passCalls["post"]["shutdown"] = 1)
      /\ mountCheck["post"] # "notrun"
      /\ (mountCheck["post"] = "mounted" => passCalls["post"]["umount"] >= 1) )

\* C6 witness: the setup-only early exit, torn down by the process-exit pass
C6_Witness ==
  /\ pc = "done" /\ mainExit = "exit0" /\ probe["main"] = "notrun"
  /\ shutdownRes["post"] = "stopped" /\ mountCheck["post"] = "mounted" /\ ~mounted

C9_LocalConfigFailureIsFatal ==
  (calls["inspectLocal"] = 1 /\ calls["localFound"] + calls["localCreated"] = 0)
    => calls["build"] = 0

\* C10: when the main phase ends after its cleanup, it throws exactly the build-phase
\* error if there is one (the cleanup pass having run first, whatever the cleanup
\* raised) and it does not fail if the build phase raised none
C10_OriginalErrorPreserved ==
  MainEnded =>
    /\ buildError # NoError =>
         (mainExit = "threw" /\ thrown = buildError /\ probe["main"] # "notrun")
    /\ buildError = NoError => (mainExit = "returned" /\ thrown = NoError)

\* C10 witness: a failed build whose cleanup raised an error of its own
C10_Witness ==
  /\ mainExit = "threw" /\ buildError = "buildx failed"
  /\ cleanupErr["main"] = "report failed" /\ thrown = "buildx failed"

\* C11: the lease is never committed while an integrity problem is present: every
\* release of the lease (completion report, failure report, commit) is issued in a state
\* where the integrity check passes, at the least its check for a live buildkitd
C11_CommitOnlyWhenHealthy ==
  [][Len(releaseLog') > Len(releaseLog) =>
       \E lockFiles \in BOOLEAN, st \in DbStates :
         validateBuildkitState(IF buildkitd > 0 THEN "found" ELSE "absent",
                               lockFiles, [f \in DbNames |-> st])]_vars

\* C12: an address of the session's daemon is returned, and a remote builder registered
\* with it, only after the worker-list query that let setup return observed at least
\* the required number of workers
C12_DispatchOnlyAfterWorkersObserved ==
  /\ pc = "sb_return" => workersSeen
  /\ builderInfo.addr # "null" => workersSeen
  /\ calls["createRemote"] > 0 => (workersSeen /\ builderInfo.addr # "null")

\* C12 witness: a build dispatched to the remote builder of a daemon seen ready
C12_Witness ==
  calls["createRemote"] = 1 /\ calls["build"] = 1 /\ workersSeen /\ builderInfo.addr # "null"

\* errors of the setup steps that precede the start of the daemon
VolumeErrors ==
  {"Failed to resolve dockerfile path", "getStickyDisk failed", "mkfs failed",
   "reportBuild failed", "mount failed"}

\* C13: the daemon is spawned only while the sticky disk is mounted at /var/lib/buildkit,
\* and a session whose acquisition, formatting or mounting failed never spawns it
C13_SpawnOnlyAfterMount ==
  [][/\ calls'["spawn"] > calls["spawn"] => (mounted /\ sticky.acquired)
     /\ setupError' \in VolumeErrors => (calls'["spawn"] = 0 /\ buildkitd' = 0 /\ ~daemonPending')]_vars

\* C13 witness: a daemon running on the mounted volume
C13_Witness ==
  calls["spawn"] = 1 /\ buildkitd = 1 /\ mounted /\ pc = "sb_workers"

\* C14: at most one buildkitd process is alive in every reachable state of a session,
\* also of a session that starts on a runner where one is already running
C14_AtMostOneDaemon ==
  buildkitd <= 1

\* C15: the process-exit pass calls commitStickyDisk exactly when the session was
\* recorded as setup-only with a non-empty exposeId, once, keyed by that exposeId, and
\* only after its daemon probe and its sync/unmount step; a session that was not
\* setup-only never commits
C15_PostCommitsExactlyWhenSetupOnly ==
  /\ calls["commitStickyDisk"] <= 1
  /\ pc = "done" => (calls["commitStickyDisk"] = 1 <=> (stSetupOnly /\ stExposeId # NoExposeId))
  /\ calls["commitStickyDisk"] = 1 =>
       /\ probe["post"] # "notrun" /\ mountCheck["post"] # "notrun"
       /\ (probe["post"] = "found" => passCalls["post"]["shutdown"] = 1)
       /\ (mountCheck["post"] = "mounted" => passCalls["post"]["umount"] >= 1)
       /\ \E i \in DOMAIN releaseLog :
            releaseLog[i] = [call |-> "commitStickyDisk", pass |-> "post",
                             exposeId |-> stExposeId, buildId |-> "null"]
  /\ ~setupOnly => (~stSetupOnly /\ calls["commitStickyDisk"] = 0)

\* C15 witness: a setup-only session committed by the process-exit pass after it
\* stopped the daemon and unmounted the volume
C15_Witness ==
  /\ pc = "done" /\ setupOnly /\ calls["commitStickyDisk"] = 1
  /\ shutdownRes["post"] = "stopped" /\ passCalls["post"]["umount"] = 1 /\ ~mounted

\* a transient (rate-limit, 429) error
Transient(kind) == kind \in {"status429", "message429"}
\* N: the number of leading invocations of the operation that fail with a transient error
LeadingTransient ==
  Cardinality({n \in DOMAIN retry.script : \A j \in 1..n : Transient(retry.script[j])})
RetryDone == retry.status \in {"returned", "threw"}
Min(a, b) == IF a < b THEN a ELSE b

\* C16 (as claimed): when the first N invocations fail with a transient error,
\* retryWithBackoff invokes the operation exactly min(N, maxRetries) times
C16_InvokesMinNMax ==
  RetryDone => retry.invocations = Min(LeadingTransient, retry.maxRetries)

\* C16 (amended): when the first N invocations fail with a transient error (and the
\* next one, if any, does not), retryWithBackoff invokes the operation exactly
\* min(N + 1, maxRetries) times, and it sleeps only between two invocations, never
\* after the last one
C16_InvokesMinNPlusOneMax ==
  RetryDone =>
    /\ retry.invocations = Min(LeadingTransient + 1, retry.maxRetries)
    /\ retry.invocations >= 1 => Len(retry.sleeps) = retry.invocations - 1
    /\ retry.invocations = 0 => retry.sleeps = <<>>

\* C16 witness: two rate-limited invocations, then one that is not, with attempts left
C16_Witness ==
  /\ RetryDone /\ retry.maxRetries = 5 /\ LeadingTransient = 2
  /\ retry.invocations = 3 /\ retry.sleeps = <<200, 400>>

\* C17: when retryWithBackoff ends, every invocation but the last failed with a
\* transient error; if the last invocation succeeded its result is returned; if it
\* failed, exactly that error is thrown, at once for a non-transient error (one sleep
\* per earlier invocation, none after it), and for a transient error only on the
\* final attempt
C17_PropagatesLastError ==
  (RetryDone /\ retry.invocations >= 1) =>
    LET i == retry.invocations
        o == retry.script[i]
    IN /\ \A j \in 1..(i - 1) : Transient(retry.script[j])
       /\ Len(retry.sleeps) = i - 1
       /\ o = "ok" => (retry.status = "returned" /\ retry.value = i)
       /\ o # "ok" => (retry.status = "threw" /\ retry.error = [kind |-> o, at |-> i])
       /\ (o # "ok" /\ Transient(o)) => i = retry.maxRetries

\* C17 witness: the final attempt fails with a rate limit and its error is thrown
C17_Witness ==
  /\ retry.status = "threw" /\ retry.maxRetries = 3 /\ retry.invocations = 3
  /\ retry.error = [kind |-> "message429", at |-> 3] /\ retry.sleeps = <<200, 400>>

\* C18: a setup whose readiness loop used up its deadline without observing the
\* required worker count, and whose final check did not observe it either, fails with
\* the workers-not-ready error, whose count is the last one observed, and hands no
\* address to the session
C18_WorkersNotReadyError ==
  (pc = "sb_catch" /\ workerPolls = MaxWorkerPolls) =>
    /\ setupError = "buildkit workers not ready"
    /\ lastWorkers < requiredWorkers(nativeMulti)
    /\ builderInfo.addr = "null"
\* C19: a shutdownBuildkitd call made while no buildkitd process is running returns
\* normally (the daemon counted as already stopped)
C19_ShutdownSafeWhenNoDaemon ==
  [][\A p \in Passes :
       (passCalls'[p]["shutdown"] = passCalls[p]["shutdown"] + 1 /\ buildkitd = 0)
         => shutdownRes'[p] = "stopped"]_vars
\* the unmount step of pass p (sync, mount listing, umount loop) is entered
UnmountStepOf(p) == pc = (IF p = "main" THEN "mc_sync" ELSE "pc_sync") /\ pc' # pc

\* the step issued no umount command, logged no warning and left the mount state alone
UnmountStepNoOp(p) ==
  /\ pc' \notin {"mc_umount", "pc_umount"}
  /\ passCalls' = passCalls
  /\ cleanupErr' = cleanupErr
  /\ mounted' = mounted

\* C20: the unmount step, run in either pass while nothing is mounted at the mount
\* point, issues no umount, logs no warning and leaves the mount state unchanged
C20_UnmountStepIdempotent ==
  [][\A p \in Passes : (UnmountStepOf(p) /\ ~mounted) => UnmountStepNoOp(p)]_vars

\* C20 as amended: the same, for a step whose sync and mount listing ran and reported
\* no mount (the listing's grep exited 1)
C20_UnmountStepIdempotentWhenListed ==
  [][\A p \in Passes :
       (UnmountStepOf(p) /\ ~mounted /\ mountCheck'[p] = "none") => UnmountStepNoOp(p)]_vars

\* C20 witness: the main pass unmounted the volume and the post pass ran the step a
\* second time, found nothing mounted and did nothing
C20_Witness ==
  /\ pc = "done" /\ ~mounted
  /\ mountCheck["main"] = "mounted" /\ passCalls["main"]["umount"] >= 1
  /\ mountCheck["post"] = "none" /\ passCalls["post"]["umount"] = 0
  /\ cleanupErr["post"] = NoError
\* C21: an acquisition whose deadline passed with no instance on any poll called
\* the abandon report once, for the task id it had submitted, before it ended, and
\* ended by returning null whether the abandon report returned or threw
C21_TimeoutAbandonsThenFails ==
  /\ acq.timedOut =>
       /\ acq.nullPolls = acq.polls /\ acq.instance = NoInstance
       /\ acq.taskId # NoTask /\ acq.abandoned = <<acq.taskId>>
       /\ rep.kind = "abandon" /\ rep.taskId = acq.taskId
       /\ acq.pc \in {"abandon", "done"}
       /\ acq.pc = "abandon" => acq.status = "pending"
       /\ acq.pc = "done" =>
            /\ rep.status \in {"returned", "threw"}
            /\ acq.status = "returned" /\ acq.result = NoAddr
  /\ acq.abandoned # <<>> => acq.timedOut

\* C21 witness: the deadline passed after several empty polls, the abandon report
\* failed, and the acquisition still ended by returning null
C21_Witness ==
  /\ acq.pc = "done" /\ acq.timedOut /\ acq.polls >= 2
  /\ rep.kind = "abandon" /\ rep.status = "threw"
  /\ acq.status = "returned" /\ acq.result = NoAddr

\* the polls of an acquisition that saw an instance: it ended at that poll, every
\* earlier poll saw none, and no abandon report was made
EndedAtFirstInstance ==
  /\ acq.pc = "done" /\ acq.status = "returned"
  /\ acq.polls = acq.instance.at
  /\ acq.nullPolls = acq.instance.at - 1
  /\ acq.abandoned = <<>> /\ rep.kind # "abandon"

\* the address tcp://<instance ip>:4242 of the instance the acquisition saw
AddrOfSeenInstance == [scheme |-> "tcp", host |-> acq.instance.ip, port |-> RemoteBuilderPort]

\* C22: an acquisition that saw an instance on its k-th poll ended there, after k
\* polls of which the first k-1 saw none, without an abandon report, and returned the
\* address of that instance
C22_ReturnsAtFirstAllocation ==
  acq.instance # NoInstance =>
    /\ EndedAtFirstInstance
    /\ acq.result = AddrOfSeenInstance

\* C22 as amended: the same, except that null is returned, with a warning, when the
\* TLS material of the instance could not be written to disk
C22_ReturnsAtFirstAllocationOrWriteFails ==
  acq.instance # NoInstance =>
    /\ EndedAtFirstInstance
    /\ \/ acq.result = AddrOfSeenInstance /\ ~acq.warned
       \/ acq.result = NoAddr /\ acq.warned

\* C22 witness: the instance appeared on the fourth poll, after three empty ones, and
\* its address was returned
C22_Witness ==
  /\ acq.instance = [ip |-> "ip2", at |-> 4] /\ acq.nullPolls = 3
  /\ acq.result = [scheme |-> "tcp", host |-> "ip2", port |-> RemoteBuilderPort]

RetryableClasses == {"server5xx", "connReset"}

\* C23: a report is sent again after a failed request only if that failure was a
\* server error or a connection reset, and a report that gave up on such a failure
\* had been sent maxRetries times; so a client error ends it after one request
C23_ReportRetriedOnServerErrorOnly ==
  LET n == Len(rep.log) IN
    /\ \A i \in 1..(n - 1) : rep.log[i] \in RetryableClasses
    /\ (rep.status = "threw" /\ rep.log[n] \in RetryableClasses) => n = ReportMaxRetries
\* the daemon setup of startAndConfigureBuildkitd is in progress
InDaemonSetup == pc \in {"sb_waitPid", "sb_workers", "sb_workersFinal", "sb_return"}

\* C24: whatever the number of requested platforms, the daemon is bound to
\* tcp://127.0.0.1:1234, the tailnet is never joined, and readiness asks for one worker:
\* a listing of one worker passes it and a listing of none does not
C24_LoopbackForEveryPlatformList ==
  /\ calls["joinTailnet"] = 0
  /\ InDaemonSetup =>
       /\ bindAddr = "tcp://127.0.0.1:1234"
       /\ requiredWorkers(nativeMulti) = 1
       /\ workersReady(1, nativeMulti) /\ ~workersReady(0, nativeMulti)
  /\ pc = "sb_return" => lastWorkers >= 1

\* C24 witness: two platforms were requested and the setup passed readiness on a
\* listing of exactly one worker, bound to the loopback address
C24_Witness ==
  /\ pc = "sb_return" /\ platforms = 2 /\ lastWorkers = 1
  /\ bindAddr = "tcp://127.0.0.1:1234" /\ calls["joinTailnet"] = 0

\* C25: on a device that blkid reports as ext4, maybeFormatBlockDevice ran no mkfs,
\* attempted the resize, and succeeded whether the resize worked or only drew a warning
C25_Ext4IsResizedNeverFormatted ==
  (fmt.ran /\ fmt.fs = "ext4") =>
    /\ ~fmt.mkfs /\ fmt.resize /\ fmt.ok
    /\ pc = "sb_reportBuild" /\ setupError = NoError

\* C25 witness: the resize of an ext4 device failed, was logged, and the setup went on
C25_Witness ==
  /\ fmt.ran /\ fmt.fs = "ext4" /\ fmt.warned /\ fmt.ok
  /\ pc = "sb_reportBuild"

\* C26: mkfs.ext4 -F ran only on a device on which blkid detected no filesystem
C26_MkfsOnlyWithoutFilesystem ==
  fmt.mkfs => fmt.fs = "none"
\* the catch of startBlacksmithBuilder ends: the function throws or returns
SetupCatchEnds == pc = "sb_catch" /\ pc' # pc
\* startBlacksmithBuilder rethrows the setup error to the build phase
SetupRethrown == pc' = "mc_export" /\ buildError' = setupError
\* startBlacksmithBuilder returns {addr: null, buildId: null, exposeId: ''}
SetupReturnsNulls == pc' = "builder" /\ builderInfo' = NoBuilder /\ buildError' = NoError

EstargzFields == <<"compression=estargz", "force-compression=true", "oci-mediatypes=true">>
HasField(arg, f) == \E i \in DOMAIN arg : arg[i] = f
IsRegistry(output) == HasField(output, "type=registry")
\* the argument that follows the i-th --output flag of the returned list
OutputArgIndexes == {i \in DOMAIN argsCall.args : i > 1 /\ argsCall.args[i - 1] = <<"--output">>}
OutputArg(k) ==
  LET a == argsCall.args
      idx(n) == CHOOSE i \in OutputArgIndexes : Cardinality({j \in OutputArgIndexes : j <= i}) = n
  IN a[idx(k)]

\* C28: a returned argument list carries the eStargz fields exactly when estargz and
\* push are set and buildx is 0.10.0 or later: then each registry output is passed with
\* the three fields appended, each other output unchanged, and a registry output with
\* the three fields is added when no output was given; otherwise no argument has the
\* field compression=estargz
C28_EstargzExactlyWhenEnabled ==
  argsCall.status = "returned" =>
    IF argsCall.estargz /\ argsCall.push /\ versionSatisfies(argsCall.buildx, 10)
      THEN IF argsCall.outputs = <<>>
             THEN /\ Cardinality(OutputArgIndexes) = 1
                  /\ OutputArg(1) = <<"type=registry">> \o EstargzFields
             ELSE /\ Cardinality(OutputArgIndexes) = Len(argsCall.outputs)
                  /\ \A k \in DOMAIN argsCall.outputs :
                       OutputArg(k) = IF IsRegistry(argsCall.outputs[k])
                                        THEN argsCall.outputs[k] \o EstargzFields
                                        ELSE argsCall.outputs[k]
      ELSE \A i \in DOMAIN argsCall.args : ~HasField(argsCall.args[i], "compression=estargz")
\* the place of a cleanup step in the claimed order
StepRank(s) ==
  CASE s = "export" -> 0
    [] s = "prune" -> 1
    [] s = "shutdown" -> 2
    [] s = "tailnet" -> 3
    [] s = "sync" -> 4
    [] s = "umount" -> 5
    [] s = "report" -> 6
    [] OTHER -> 7

\* C29: in each cleanup pass the steps that ran did so in the order export, prune,
\* shutdown, tailnet leave, sync, umount, report
C29_CleanupStepsInFixedOrder ==
  \A p \in Passes :
    \A i, j \in DOMAIN steps[p] :
      i < j => StepRank(steps[p][i]) < StepRank(steps[p][j])
\* C30: shutdownBuildkitd sends the termination signal once; it returns normally only
\* after a probe, made after the signal, found no buildkitd process; and when the
\* deadline passes with every probe so far having found the process, it throws the
\* timeout error
C30_ReturnsOnlyAfterAbsenceProbe ==
  /\ sd.signals <= 1
  /\ sd.pc \in {"loop", "done"} => sd.signals = 1
  /\ sd.probes > 0 => sd.signals = 1
  /\ sd.status = "returned" =>
       /\ sd.probes >= 1 /\ sd.script[sd.probes] = "absent"
       /\ ~sd.deadline
  /\ sd.deadline =>
       /\ \A i \in 1..sd.probes : sd.script[i] = "found"
       /\ sd.status = "threw" /\ sd.error = TimedOutShutdown

\* C30 witness: the process was still there on two probes and gone on the third, and
\* only then did the call return
C30_Witness ==
  /\ sd.status = "returned" /\ sd.probes = 3 /\ sd.signals = 1
  /\ sd.script[1] = "found" /\ sd.script[2] = "found" /\ sd.script[3] = "absent"
StartTimeout == "Timed out waiting for buildkitd to start after 10 seconds"

\* C31: the worker-readiness check is entered only from the start wait loop, on a
\* probe that found a buildkitd process; a wait loop whose deadline passed without such
\* a probe fails the setup with the start-timeout error, and no worker query is made
C31_AddressOnlyAfterProbeFound ==
  [][/\ (pc # "sb_workers" /\ pc' = "sb_workers") =>
          (pc = "sb_waitPid" /\ buildkitd' > 0 /\ setupError' = NoError)
     /\ (pc # "sb_workersFinal" /\ pc' = "sb_workersFinal") => pc = "sb_workers"
     /\ (pc = "sb_waitPid" /\ startPolls = MaxStartPolls) =>
          /\ pc' = "sb_catch" /\ setupError' = StartTimeout
          /\ workerPolls' = 0 /\ lastWorkers' = 0 /\ workersSeen' = FALSE]_vars

\* C31 witness: the daemon was spawned, no probe found it before the deadline, and
\* the setup failed with the start-timeout error
C31_Witness ==
  /\ pc = "sb_catch" /\ setupError = StartTimeout
  /\ calls["spawn"] = 1 /\ buildkitd = 0 /\ startPolls = MaxStartPolls
  /\ workerPolls = 0 /\ lastWorkers = 0
PruneStep(p) == passCalls'[p]["prune"] = passCalls[p]["prune"] + 1
ShutdownStep(p) == passCalls'[p]["shutdown"] = passCalls[p]["shutdown"] + 1
ShutdownPc(p) == IF p = "main" THEN "mc_shutdown" ELSE "pc_shutdown"

\* C32: in each pass the prune is run only for a detected daemon and before any
\* shutdown; whatever the prune's outcome the pass goes on to the shutdown call, which
\* is then made; and no shutdown is called that was not preceded by the prune
C32_PruneThenShutdownRegardless ==
  [][\A p \in Passes :
       /\ PruneStep(p) =>
            /\ probe[p] = "found" /\ passCalls[p]["shutdown"] = 0
            /\ pc' = ShutdownPc(p)
       /\ pc = ShutdownPc(p) => (ShutdownStep(p) /\ passCalls[p]["prune"] = 1)
       /\ ShutdownStep(p) => pc = ShutdownPc(p)]_vars

\* C32 witness: the prune of the post pass failed, which was logged, and the daemon
\* was shut down all the same
C32_Witness ==
  /\ cleanupErr["post"] = "prune failed"
  /\ passCalls["post"]["prune"] = 1 /\ passCalls["post"]["shutdown"] = 1
  /\ shutdownRes["post"] = "stopped" /\ buildkitd = 0
UmountPc(p) == IF p = "main" THEN "mc_umount" ELSE "pc_umount"
AfterUmountPc(p) == IF p = "main" THEN "mc_report" ELSE "pc_tmpdir"

\* C33: a pass invokes umount at most three times; a successful attempt ends the loop
\* without a sleep; a failed first or second attempt is followed by one sleep and the
\* next attempt; the third failure ends the loop without a sleep, is recorded as the
\* pass's warning, and the pass goes on with its next step
C33_UmountAtMostThreeTimes ==
  [][\A p \in Passes :
       /\ passCalls'[p]["umount"] <= MaxUmountAttempts
       /\ pc = UmountPc(p) =>
            /\ passCalls'[p]["umount"] = passCalls[p]["umount"] + 1
            /\ ~mounted' =>
                 /\ pc' = AfterUmountPc(p)
                 /\ passCalls'[p]["sleep"] = passCalls[p]["sleep"]
            /\ (mounted' /\ passCalls'[p]["umount"] < MaxUmountAttempts) =>
                 /\ pc' = UmountPc(p)
                 /\ passCalls'[p]["sleep"] = passCalls[p]["sleep"] + 1
            /\ (mounted' /\ passCalls'[p]["umount"] = MaxUmountAttempts) =>
                 /\ pc' = AfterUmountPc(p)
                 /\ passCalls'[p]["sleep"] = passCalls[p]["sleep"]
                 /\ cleanupErr'[p] = "umount failed"]_vars
\* C34: a setup-only session never calls reportBuild, its lease and builder info carry
\* no buildId, the build command is never run, and once the main phase has ended at the
\* setup-only exit neither reportBuildCompleted nor reportBuildFailed has been issued
C34_SetupOnlyRegistersNoBuild ==
  setupOnly =>
    /\ calls["reportBuild"] = 0
    /\ sticky.buildId = "null" /\ builderInfo.buildId = "null"
    /\ calls["build"] = 0 /\ calls["export"] = 0
    /\ mainExit = "exit0" =>
         (calls["reportBuildCompleted"] = 0 /\ calls["reportBuildFailed"] = 0)

\* C34 witness: a setup-only session that set up the remote builder has ended, after
\* its process-exit pass, without a registered build, a build command or a report
C34_Witness ==
  /\ setupOnly /\ pc = "done" /\ mainExit = "exit0"
  /\ builderInfo.addr # "null" /\ calls["createRemote"] = 1 /\ calls["mount"] = 1
  /\ calls["reportBuild"] = 0 /\ calls["build"] = 0
  /\ calls["reportBuildCompleted"] = 0 /\ calls["reportBuildFailed"] = 0
PassUntouched(p) ==
  /\ steps[p] = <<>> /\ probe[p] = "notrun" /\ mountCheck[p] = "notrun"
  /\ \A c \in PassCallNames : passCalls[p][c] = 0

\* C35: a setup-only session that set up its builder ends the main phase with no step of
\* the main cleanup pass run; at that moment the daemon runs and the volume is mounted;
\* afterwards the daemon is gone only if the process-exit pass pruned or shut it down,
\* and the volume is unmounted only if that pass ran umount
C35_SetupOnlyExitLeavesDaemonAndMount ==
  (setupOnly /\ mainExit = "exit0" /\ builderInfo.addr # "null") =>
    /\ PassUntouched("main")
    /\ PassUntouched("post") => (buildkitd > 0 /\ mounted)
    /\ buildkitd = 0 => passCalls["post"]["prune"] = 1
    /\ ~mounted => passCalls["post"]["umount"] >= 1

\* C35 witness: after a setup-only exit the process-exit pass stopped the daemon and
\* unmounted the volume, the main pass having done nothing
C35_Witness ==
  /\ setupOnly /\ mainExit = "exit0" /\ builderInfo.addr # "null" /\ pc = "done"
  /\ PassUntouched("main")
  /\ passCalls["post"]["shutdown"] = 1 /\ passCalls["post"]["umount"] = 1
  /\ buildkitd = 0 /\ ~mounted
\* C36: validateBuildkitState returns true whenever no daemon is found, no lock files
\* are listed and no existing database file is empty, so that a missing database file
\* is accepted; and it returns false when an existing database file is empty
C36_MissingDbFileAccepted ==
  val.pc = "done" =>
    /\ (/\ val.pgrep = "absent" /\ ~val.lockFiles
        /\ \A f \in DbNames : val.dbs[f] # "empty") => val.result
    /\ (\E f \in DbNames : val.dbs[f] = "empty") => ~val.result
\* the conclusions (completion or failure reports) issued for build b
Conclusions(b) ==
  {i \in DOMAIN releaseLog :
     /\ releaseLog[i].call \in {"reportBuildCompleted", "reportBuildFailed"}
     /\ releaseLog[i].buildId = b}

Registered(b) == calls["reportBuild"] = 1 /\ sticky.buildId = b

\* C37: a build that reportBuild registered under a buildId is eventually concluded by
\* a reportBuildCompleted or reportBuildFailed carrying that buildId, and never by more
\* than one of them, whatever fails in the setup after the registration
C37_RegisteredBuildConcluded ==
  /\ \A b \in BuildIds \ {"null"} : Registered(b) ~> (Cardinality(Conclusions(b)) = 1)
  /\ [](\A b \in BuildIds \ {"null"} : Cardinality(Conclusions(b)) <= 1)
Issued(c) == calls[c]

\* C38: over both passes of a session at most one of reportBuildCompleted,
\* reportBuildFailed and commitStickyDisk is issued; a completion report implies that the
\* build phase raised no error, a failure report that it raised one, and a commit that
\* the session is setup-only
C38_AtMostOneConclusion ==
  /\ Issued("reportBuildCompleted") + Issued("reportBuildFailed") + Issued("commitStickyDisk") <= 1
  /\ Issued("reportBuildCompleted") > 0 => buildError = NoError
  /\ Issued("reportBuildFailed") > 0 => buildError # NoError
  /\ Issued("commitStickyDisk") > 0 => setupOnly

\* C38 witness: a session whose build failed has ended after both passes with the
\* failure report as its only conclusion
C38_Witness ==
  /\ pc = "done" /\ buildError = "buildx failed"
  /\ Issued("reportBuildFailed") = 1
  /\ Issued("reportBuildCompleted") = 0 /\ Issued("commitStickyDisk") = 0
\* C39: when the build command is about to be dispatched by a session whose setup
\* failed and which fell back to the local builder, no buildkitd of the session is
\* running and the sticky disk is not mounted
C39_FallbackBuildsOnCleanRunner ==
  (pc = "build" /\ setupError # NoError /\ builderInfo.addr = "null") =>
    (buildkitd = 0 /\ ~mounted)
\* the main phase is running and buildx was found unavailable after setupBuildx: before
\* the local builder is looked at, nothing else marks the run as failed
BuildxUnavailable == failed /\ mainExit = "running" /\ calls["inspectLocal"] = 0

\* C40: the step that finds buildx unavailable after setupBuildx ends the main phase,
\* so that a running main phase with buildx unavailable has acquired no sticky disk,
\* started no daemon, configured no builder and dispatched no build
C40_MainStopsWithoutBuildx ==
  [][/\ (pc = "setupBuildx" /\ failed') => mainExit' \in {"returned", "threw"}
     /\ BuildxUnavailable =>
          /\ calls["getStickyDisk"] = 0 /\ ~sticky.acquired
          /\ calls["spawn"] = 0 /\ buildkitd = 0
          /\ calls["createRemote"] = 0 /\ calls["createLocal"] = 0
          /\ calls["build"] = 0]_vars
====
